---- MODULE Spec2Model ----
(***************************************************************************)
(* A model of the Boston property lookup application:                      *)
(*   - the fiscal calendar and the abatement / exemption phase functions   *)
(*     of frontend/src/utils/fiscalData.ts,                                *)
(*   - the tax-rate lookups of fiscalData.ts and taxRates.ts,              *)
(*   - the EGIS client of functions/src/index.ts (paginated fetch with     *)
(*     retries, latest-version filter, residential/condo merge),           *)
(*   - the date handling of the generatePdf callable.                      *)
(* Each part has its own specification over the shared variables; the      *)
(* variables a specification does not use keep their idle values.          *)
(***************************************************************************)
EXTENDS Integers, Sequences, FiniteSets, TLC

VARIABLES
    now,            \* phases: the clock, a Date [day, ms]
    year,           \* phases: the year the phases are evaluated for
    exemption,      \* phases: result of getExemptionPhase(now, year, opts) per opts.type
    abatement,      \* phases: result of getAbatementPhase(now, year)
    fPc,            \* fetchEGISData: where the call is
    serverPages,    \* fetchEGISData: the page the server answers the i-th page request with
    resultOffset,   \* fetchEGISData: resultOffset
    requestCount,   \* fetchEGISData: requestCount
    retryCount,     \* fetchEGISData: retryCount
    allFeatures,    \* fetchEGISData: allFeatures
    response,       \* fetchEGISData: response ("none" while undefined)
    data,           \* fetchEGISData: data (<<>> while undefined, else <<body>>)
    requests,       \* fetchEGISData: the page requests made so far, as sent
    attemptLog,     \* fetchEGISData: the HTTP attempts of the current page request
    fetchResult,    \* fetchEGISData: what the caller got
    primaryResidentialAttrs, \* details: attributes of the first residential row
    condoAttrs,     \* details: attributes of the first condo row
    propertyDetails, \* details: the merged attribute fields of the record
    filterFeatures, \* latest-version filter: the features argument, one layer's rows
    filterOptions,  \* latest-version filter: the options argument
    filterResult,   \* latest-version filter: what the call returned
    config,         \* tax rates: the fiscal year configuration (fiscalData.yaml)
    fiscalYear,     \* tax rates: the fiscal year looked up (the hook's displayFY)
    ratesResult,    \* tax rates: what getTaxRates of fiscalData.ts returned
    hookTaxRates,   \* tax rates: the taxRates of usePropertyTaxesContent
    pdfData,        \* generatePdf: the request data [formType, date]
    pdfToday,       \* generatePdf: the instant new Date() gives
    pdfPc,          \* generatePdf: where the call is
    pdfDate,        \* generatePdf: date (<<>> while unassigned)
    pdfFiscalYear,  \* generatePdf: fiscalYear (<<>> while unassigned)
    pdfCalls,       \* generatePdf: the calls made to the other services, in order
    pdfResponse,    \* generatePdf: what the caller got
    pdfCacheBucket, \* forms: the stored PDF of each cache key (<<>> while none)
    abatementSequences, \* forms: the abatement_sequences document of each year (<<>> while none)
    currentFiscalYear,  \* forms: the fiscal year of new Date()
    calls,          \* forms: the generatePdf / downloadPdf calls and where each is
    sequenceLog,    \* forms: per year, the numbers getNextAbatementSequenceNumber returned, in order
    egisParcel,     \* forms: whether EGIS holds rows for the parcel the calls ask for
    egisLayers,     \* aggregate: the rows EGIS holds for the parcel, layer by layer
    failedQueries,  \* aggregate: the layers whose query fails after its retries
    aggregate,      \* aggregate: what fetchPropertyDetailsByParcelIdHelper gave
    dashValue,      \* parseAfterDash: the value argument
    dashResult,      \* parseAfterDash: what the call returned
    disclaimerConfig,  \* owner disclaimer: the fiscal year configuration (fiscalData.yaml)
    disclaimerDate,  \* owner disclaimer: the date argument
    disclaimerResult, \* owner disclaimer: what getOwnerDisclaimerDate returned
    summaryLayers,  \* summaries: the rows EGIS holds in the three layers, in the order it returns them
    summaryPeriod,  \* summaries: the fiscalYearAndQuarter argument
    summaryFails,   \* summaries: whether a layer query fails after its retries
    summaries,       \* summaries: what fetchPropertySummariesByParcelIdsHelper returned
    searchResults,  \* useSearchResults: the searchResults state
    isLoading,      \* useSearchResults: the isLoading state
    searchError,    \* useSearchResults: the error state
    abortControllers,  \* useSearchResults: whether each AbortController created so far is aborted
    abortControllerRef,  \* useSearchResults: abortControllerRef.current, 0 while null
    lastSearchTimeRef,  \* useSearchResults: lastSearchTimeRef.current
    searchTimeoutRef,  \* useSearchResults: the timer of searchTimeoutRef.current
    searchClock,    \* useSearchResults: Date.now()
    summaryFetches,  \* useSearchResults: the fetchPropertySummariesByParcelIds calls awaited
    searchLog       \* useSearchResults: the performSearch calls of the component, in order

phaseVars == <<now, year, exemption, abatement>>
fetchVars == <<fPc, serverPages, resultOffset, requestCount, retryCount, allFeatures,
               response, data, requests, attemptLog, fetchResult>>

mergeVars == <<primaryResidentialAttrs, condoAttrs, propertyDetails>>

filterVars == <<filterFeatures, filterOptions, filterResult>>

ratesVars == <<config, fiscalYear, ratesResult, hookTaxRates>>

pdfVars == <<pdfData, pdfToday, pdfPc, pdfDate, pdfFiscalYear, pdfCalls, pdfResponse>>

formsVars ==
    <<pdfCacheBucket, abatementSequences, currentFiscalYear, calls, sequenceLog, egisParcel>>

aggregateVars == <<egisLayers, failedQueries, aggregate>>

dashVars == <<dashValue, dashResult>>

disclaimerVars == <<disclaimerConfig, disclaimerDate, disclaimerResult>>

summariesVars == <<summaryLayers, summaryPeriod, summaryFails, summaries>>

searchVars == <<searchResults, isLoading, searchError, abortControllers, abortControllerRef, lastSearchTimeRef, searchTimeoutRef, searchClock, summaryFetches, searchLog>>

vars == <<phaseVars, fetchVars, mergeVars, filterVars, ratesVars, pdfVars, formsVars,
          aggregateVars, dashVars, disclaimerVars, summariesVars, searchVars>>

\* The variables each specification leaves alone.
besidesPhase ==
    <<fetchVars, mergeVars, filterVars, ratesVars, pdfVars, formsVars, aggregateVars, dashVars,
      disclaimerVars, summariesVars, searchVars>>
besidesFetch ==
    <<phaseVars, mergeVars, filterVars, ratesVars, pdfVars, formsVars, aggregateVars, dashVars,
      disclaimerVars, summariesVars, searchVars>>
besidesMerge ==
    <<phaseVars, fetchVars, filterVars, ratesVars, pdfVars, formsVars, aggregateVars, dashVars,
      disclaimerVars, summariesVars, searchVars>>
besidesFilter ==
    <<phaseVars, fetchVars, mergeVars, ratesVars, pdfVars, formsVars, aggregateVars, dashVars,
      disclaimerVars, summariesVars, searchVars>>
besidesRates ==
    <<phaseVars, fetchVars, mergeVars, filterVars, pdfVars, formsVars, aggregateVars, dashVars,
      disclaimerVars, summariesVars, searchVars>>
besidesPdf ==
    <<phaseVars, fetchVars, mergeVars, filterVars, ratesVars, formsVars, aggregateVars,
      dashVars, disclaimerVars, summariesVars, searchVars>>
besidesForms ==
    <<phaseVars, fetchVars, mergeVars, filterVars, ratesVars, pdfVars, aggregateVars, dashVars,
      disclaimerVars, summariesVars, searchVars>>
besidesAggregate ==
    <<phaseVars, fetchVars, mergeVars, filterVars, ratesVars, pdfVars, formsVars, dashVars,
      disclaimerVars, summariesVars, searchVars>>
besidesDash ==
    <<phaseVars, fetchVars, mergeVars, filterVars, ratesVars, pdfVars, formsVars,
      aggregateVars, disclaimerVars, summariesVars, searchVars>>
besidesDisclaimer ==
    <<phaseVars, fetchVars, mergeVars, filterVars, ratesVars, pdfVars, formsVars,
      aggregateVars, dashVars, summariesVars, searchVars>>
besidesSummaries ==
    <<phaseVars, fetchVars, mergeVars, filterVars, ratesVars, pdfVars, formsVars,
      aggregateVars, dashVars, disclaimerVars, searchVars>>
besidesSearch ==
    <<phaseVars, fetchVars, mergeVars, filterVars, ratesVars, pdfVars, formsVars,
      aggregateVars, dashVars, disclaimerVars, summariesVars>>

Idle == "idle"

PhaseIdle ==
    /\ now = Idle
    /\ year = Idle
    /\ exemption = Idle
    /\ abatement = Idle

FetchIdle ==
    /\ fPc = Idle
    /\ serverPages = Idle
    /\ resultOffset = Idle
    /\ requestCount = Idle
    /\ retryCount = Idle
    /\ allFeatures = Idle
    /\ response = Idle
    /\ data = Idle
    /\ requests = Idle
    /\ attemptLog = Idle
    /\ fetchResult = Idle

MergeIdle ==
    /\ primaryResidentialAttrs = Idle
    /\ condoAttrs = Idle
    /\ propertyDetails = Idle

FilterIdle ==
    /\ filterFeatures = Idle
    /\ filterOptions = Idle
    /\ filterResult = Idle

RatesIdle ==
    /\ config = Idle
    /\ fiscalYear = Idle
    /\ ratesResult = Idle
    /\ hookTaxRates = Idle

PdfIdle ==
    /\ pdfData = Idle
    /\ pdfToday = Idle
    /\ pdfPc = Idle
    /\ pdfDate = Idle
    /\ pdfFiscalYear = Idle
    /\ pdfCalls = Idle
    /\ pdfResponse = Idle

FormsIdle ==
    /\ pdfCacheBucket = Idle
    /\ abatementSequences = Idle
    /\ currentFiscalYear = Idle
    /\ calls = Idle
    /\ sequenceLog = Idle
    /\ egisParcel = Idle

AggregateIdle ==
    /\ egisLayers = Idle
    /\ failedQueries = Idle
    /\ aggregate = Idle

DashIdle ==
    /\ dashValue = Idle
    /\ dashResult = Idle

DisclaimerIdle ==
    /\ disclaimerConfig = Idle
    /\ disclaimerDate = Idle
    /\ disclaimerResult = Idle

SummariesIdle ==
    /\ summaryLayers = Idle
    /\ summaryPeriod = Idle
    /\ summaryFails = Idle
    /\ summaries = Idle

SearchIdle ==
    /\ searchResults = Idle
    /\ isLoading = Idle
    /\ searchError = Idle
    /\ abortControllers = Idle
    /\ abortControllerRef = Idle
    /\ lastSearchTimeRef = Idle
    /\ searchTimeoutRef = Idle
    /\ searchClock = Idle
    /\ summaryFetches = Idle
    /\ searchLog = Idle

BesidesPhaseIdle ==
    FetchIdle /\ MergeIdle /\ FilterIdle /\ RatesIdle /\ PdfIdle /\ FormsIdle /\
        AggregateIdle /\ DashIdle /\ DisclaimerIdle /\ SummariesIdle /\ SearchIdle
BesidesFetchIdle ==
    PhaseIdle /\ MergeIdle /\ FilterIdle /\ RatesIdle /\ PdfIdle /\ FormsIdle /\
        AggregateIdle /\ DashIdle /\ DisclaimerIdle /\ SummariesIdle /\ SearchIdle
BesidesMergeIdle ==
    PhaseIdle /\ FetchIdle /\ FilterIdle /\ RatesIdle /\ PdfIdle /\ FormsIdle /\
        AggregateIdle /\ DashIdle /\ DisclaimerIdle /\ SummariesIdle /\ SearchIdle
BesidesFilterIdle ==
    PhaseIdle /\ FetchIdle /\ MergeIdle /\ RatesIdle /\ PdfIdle /\ FormsIdle /\
        AggregateIdle /\ DashIdle /\ DisclaimerIdle /\ SummariesIdle /\ SearchIdle
BesidesRatesIdle ==
    PhaseIdle /\ FetchIdle /\ MergeIdle /\ FilterIdle /\ PdfIdle /\ FormsIdle /\
        AggregateIdle /\ DashIdle /\ DisclaimerIdle /\ SummariesIdle /\ SearchIdle
BesidesPdfIdle ==
    PhaseIdle /\ FetchIdle /\ MergeIdle /\ FilterIdle /\ RatesIdle /\ FormsIdle /\
        AggregateIdle /\ DashIdle /\ DisclaimerIdle /\ SummariesIdle /\ SearchIdle
BesidesFormsIdle ==
    PhaseIdle /\ FetchIdle /\ MergeIdle /\ FilterIdle /\ RatesIdle /\ PdfIdle /\
        AggregateIdle /\ DashIdle /\ DisclaimerIdle /\ SummariesIdle /\ SearchIdle
BesidesAggregateIdle ==
    PhaseIdle /\ FetchIdle /\ MergeIdle /\ FilterIdle /\ RatesIdle /\ PdfIdle /\ FormsIdle /\
        DashIdle /\ DisclaimerIdle /\ SummariesIdle /\ SearchIdle
BesidesDashIdle ==
    PhaseIdle /\ FetchIdle /\ MergeIdle /\ FilterIdle /\ RatesIdle /\ PdfIdle /\ FormsIdle /\
        AggregateIdle /\ DisclaimerIdle /\ SummariesIdle /\ SearchIdle
BesidesDisclaimerIdle ==
    PhaseIdle /\ FetchIdle /\ MergeIdle /\ FilterIdle /\ RatesIdle /\ PdfIdle /\ FormsIdle /\
        AggregateIdle /\ DashIdle /\ SummariesIdle /\ SearchIdle
BesidesSummariesIdle ==
    PhaseIdle /\ FetchIdle /\ MergeIdle /\ FilterIdle /\ RatesIdle /\ PdfIdle /\ FormsIdle /\
        AggregateIdle /\ DashIdle /\ DisclaimerIdle /\ SearchIdle
BesidesSearchIdle ==
    PhaseIdle /\ FetchIdle /\ MergeIdle /\ FilterIdle /\ RatesIdle /\ PdfIdle /\ FormsIdle /\
        AggregateIdle /\ DashIdle /\ DisclaimerIdle /\ SummariesIdle

(***************************************************************************)
(* Bounds of the model.                                                    *)
(***************************************************************************)
MinYear == 2020
MaxYear == 2035
\* The most page requests one fetchEGISData call is followed for.
MaxRequests == 3
\* The most features the server puts on one page.
MaxPageLen == 2
\* The fiscal years the configuration may hold.
FirstConfigYear == 2024
LastConfigYear == 2027
\* The generatePdf / downloadPdf calls followed together.
MaxCalls == 2

Years == MinYear..MaxYear

(***************************************************************************)
(* JavaScript local-time Date.  A Date is [day, ms]: the number of whole   *)
(* local days since 1970-01-01 and the milliseconds into that day.  Dates  *)
(* compare by their instant, that is by (day, ms) lexicographically.       *)
(***************************************************************************)
MsPerDay == 24 * 60 * 60 * 1000

DaysFromCivil(y, m, d) ==
    LET yy  == IF m <= 2 THEN y - 1 ELSE y
        era == yy \div 400
        yoe == yy - era * 400
        mp  == IF m > 2 THEN m - 3 ELSE m + 9
        doy == (153 * mp + 2) \div 5 + d - 1
        doe == yoe * 365 + yoe \div 4 - yoe \div 100 + doy
    IN  era * 146097 + doe - 719468

CivilFromDays(z) ==
    LET zz  == z + 719468
        era == zz \div 146097
        doe == zz - era * 146097
        yoe == (doe - doe \div 1460 + doe \div 36524 - doe \div 146096) \div 365
        doy == doe - (365 * yoe + yoe \div 4 - yoe \div 100)
        mp  == (5 * doy + 2) \div 153
        d   == doy - (153 * mp + 2) \div 5 + 1
        m   == IF mp < 10 THEN mp + 3 ELSE mp - 9
        y   == yoe + era * 400 + (IF m <= 2 THEN 1 ELSE 0)
    IN  [year |-> y, month |-> m, date |-> d]

\* new Date(year, monthIndex, day): local midnight; out-of-range months and
\* days roll over into the neighbouring months and years, and a year of 0..99
\* means 1900 + year.
NewDate(y, monthIndex, d) ==
    LET y0 == IF y >= 0 /\ y <= 99 THEN 1900 + y ELSE y
        y1 == y0 + (monthIndex \div 12)
        m1 == (monthIndex % 12) + 1
    IN  [day |-> DaysFromCivil(y1, m1, 1) + (d - 1), ms |-> 0]

GetFullYear(date) == CivilFromDays(date.day).year
GetMonth(date) == CivilFromDays(date.day).month - 1
GetDate(date) == CivilFromDays(date.day).date
\* 1970-01-01 was a Thursday; 0 is Sunday.
GetDay(date) == (date.day + 4) % 7

\* date.setDate(date.getDate() + n)
AddDays(date, n) == [date EXCEPT !.day = @ + n]

DateLT(a, b) == a.day < b.day \/ (a.day = b.day /\ a.ms < b.ms)
DateLE(a, b) == a.day < b.day \/ (a.day = b.day /\ a.ms <= b.ms)
DateGT(a, b) == DateLT(b, a)
DateGE(a, b) == DateLE(b, a)

(***************************************************************************)
(* fiscalData.ts: the temporal anchors.                                    *)
(***************************************************************************)
\* A variant of getNextMonday that moves a Saturday by one day only.
getNextMondayOneDay(date) ==
    IF GetDay(date) \in {0, 6} THEN AddDays(date, 1) ELSE date

getNextMonday(date) ==
    LET day == GetDay(date)
    IN  IF day = 6 THEN AddDays(date, 2)
        ELSE IF day = 0 THEN AddDays(date, 1)
        ELSE date

NEW_APPLICATION_PERIOD_BEGINS(y) == NewDate(y, 0, 1)
ABATEMENT_APPLICATION_DEADLINE(y) == getNextMonday(NewDate(y, 1, 1))
EXEMPTIONS_IN_PROGRESS(y) == NewDate(y, 2, 1)
EXEMPTION_APPLICATION_DEADLINE(y) == getNextMonday(NewDate(y, 3, 1))
NEW_FY_PRELIMINARY_TAX_PERIOD_BEGINS(y) == NewDate(y, 6, 1)
\* A variant of the grace deadline counted from Feb 1 itself.
GraceFromFebruaryFirst(y) == AddDays(NewDate(y, 1, 1), 28)
ABATEMENT_GRACE_PERIOD_DEADLINE(y) == AddDays(ABATEMENT_APPLICATION_DEADLINE(y), 28)
EXEMPTION_APPLICATION_DEADLINE_DATE(y) == getNextMonday(NewDate(y, 3, 1))

\* A variant of getFiscalYear whose fiscal year starts on August 1.
getFiscalYearFromAugust(date) ==
    IF GetMonth(date) > 6 THEN GetFullYear(date) + 1 ELSE GetFullYear(date)

getFiscalYear(date) ==
    IF GetMonth(date) >= 6 THEN GetFullYear(date) + 1 ELSE GetFullYear(date)

\* formatDateForDisplay(date, opts): the date, and the time of day when asked for.
formatDateForDisplay(date, withTime) ==
    IF withTime THEN [day |-> date.day, time |-> date.ms]
    ELSE [day |-> date.day]

NoDeadline == [day |-> -1, ms |-> -1]

\* A variant of getAbatementPhase that takes its windows from the year
\* argument instead of the calendar year of the date.
getAbatementPhaseByReferenceYear(date, y) ==
    LET jan1 == NEW_APPLICATION_PERIOD_BEGINS(y)
        abatementDeadline == ABATEMENT_APPLICATION_DEADLINE(y)
        july1 == NEW_FY_PRELIMINARY_TAX_PERIOD_BEGINS(y)
        nextJan1 == NEW_APPLICATION_PERIOD_BEGINS(y + 1)
    IN  IF DateGE(date, jan1) /\ DateLE(date, abatementDeadline)
        THEN [phase |-> "open", hasDeadline |-> TRUE, deadline |-> abatementDeadline]
        ELSE IF DateGT(date, abatementDeadline) /\ DateLT(date, july1)
        THEN [phase |-> "after_deadline", hasDeadline |-> TRUE, deadline |-> abatementDeadline]
        ELSE IF DateGE(date, july1) /\ DateLT(date, nextJan1)
        THEN [phase |-> "preliminary", hasDeadline |-> TRUE, deadline |-> abatementDeadline]
        ELSE [phase |-> "preliminary", hasDeadline |-> FALSE, deadline |-> NoDeadline]

\* A variant of getAbatementPhase whose preliminary window opens after the
\* instant of July 1 instead of at it.
getAbatementPhaseAfterJulyFirst(date, y) ==
    LET currentYear == GetFullYear(date)
        jan1 == NEW_APPLICATION_PERIOD_BEGINS(currentYear)
        abatementDeadline == ABATEMENT_APPLICATION_DEADLINE(currentYear)
        july1 == NEW_FY_PRELIMINARY_TAX_PERIOD_BEGINS(currentYear)
        nextJan1 == NEW_APPLICATION_PERIOD_BEGINS(currentYear + 1)
    IN  IF DateGE(date, jan1) /\ DateLE(date, abatementDeadline)
        THEN [phase |-> "open", hasDeadline |-> TRUE, deadline |-> abatementDeadline,
              message |-> [next_year |-> y + 1, current_year |-> y,
                           deadline_date |-> formatDateForDisplay(abatementDeadline, TRUE)]]
        ELSE IF DateGT(date, abatementDeadline) /\ DateLT(date, july1)
        THEN [phase |-> "after_deadline", hasDeadline |-> TRUE, deadline |-> abatementDeadline,
              message |-> [next_year |-> y + 1, current_year |-> y,
                           deadline_date |-> formatDateForDisplay(abatementDeadline, FALSE)]]
        ELSE IF DateGT(date, july1) /\ DateLT(date, nextJan1)
        THEN [phase |-> "preliminary", hasDeadline |-> TRUE, deadline |-> abatementDeadline,
              message |-> [current_fy |-> currentYear + 1, current_year |-> currentYear + 1,
                           next_fy |-> currentYear + 2,
                           next_jan1_date |-> formatDateForDisplay(nextJan1, FALSE)]]
        ELSE [phase |-> "preliminary", hasDeadline |-> FALSE, deadline |-> NoDeadline,
              message |-> <<>>]

(***************************************************************************)
(* fiscalData.ts: getAbatementPhase(date, year).  The windows are those of *)
(* the calendar year of the date; year only feeds the message variables.   *)
(***************************************************************************)
getAbatementPhase(date, y) ==
    LET currentYear == GetFullYear(date)
        jan1 == NEW_APPLICATION_PERIOD_BEGINS(currentYear)
        abatementDeadline == ABATEMENT_APPLICATION_DEADLINE(currentYear)
        july1 == NEW_FY_PRELIMINARY_TAX_PERIOD_BEGINS(currentYear)
        nextJan1 == NEW_APPLICATION_PERIOD_BEGINS(currentYear + 1)
    IN  IF DateGE(date, jan1) /\ DateLE(date, abatementDeadline)
        THEN [phase |-> "open", hasDeadline |-> TRUE, deadline |-> abatementDeadline,
              message |-> [next_year |-> y + 1, current_year |-> y,
                           deadline_date |-> formatDateForDisplay(abatementDeadline, TRUE)]]
        ELSE IF DateGT(date, abatementDeadline) /\ DateLT(date, july1)
        THEN [phase |-> "after_deadline", hasDeadline |-> TRUE, deadline |-> abatementDeadline,
              message |-> [next_year |-> y + 1, current_year |-> y,
                           deadline_date |-> formatDateForDisplay(abatementDeadline, FALSE)]]
        ELSE IF DateGE(date, july1) /\ DateLT(date, nextJan1)
        THEN [phase |-> "preliminary", hasDeadline |-> TRUE, deadline |-> abatementDeadline,
              message |-> [current_fy |-> currentYear + 1, current_year |-> currentYear + 1,
                           next_fy |-> currentYear + 2,
                           next_jan1_date |-> formatDateForDisplay(nextJan1, FALSE)]]
        ELSE [phase |-> "preliminary", hasDeadline |-> FALSE, deadline |-> NoDeadline,
              message |-> <<>>]

(***************************************************************************)
(* fiscalData.ts: getExemptionPhase(date, year, opts).  The windows are    *)
(* those of year; the branches are tried in order and the first wins.      *)
(***************************************************************************)
\* A variant of getExemptionPhase whose open window excludes the deadline.
getExemptionPhaseOpenExclusive(date, y, type) ==
    LET jan1 == NEW_APPLICATION_PERIOD_BEGINS(y)
        deadline == EXEMPTION_APPLICATION_DEADLINE_DATE(y)
        july1 == NEW_FY_PRELIMINARY_TAX_PERIOD_BEGINS(y)
        nextJan1 == NEW_APPLICATION_PERIOD_BEGINS(y + 1)
    IN  IF DateLT(date, jan1)
        THEN [phase |-> "before_jan1", hasDeadline |-> FALSE, deadline |-> NoDeadline]
        ELSE IF DateGE(date, jan1) /\ DateLT(date, deadline)
        THEN [phase |-> "open", hasDeadline |-> TRUE, deadline |-> deadline]
        ELSE IF DateGE(date, deadline) /\ DateLT(date, july1)
        THEN [phase |-> "after_deadline", hasDeadline |-> TRUE, deadline |-> deadline]
        ELSE IF DateGE(date, july1) /\ DateLT(date, nextJan1)
        THEN [phase |-> "preliminary", hasDeadline |-> TRUE, deadline |-> deadline]
        ELSE [phase |-> "before_jan1", hasDeadline |-> FALSE, deadline |-> NoDeadline]

getExemptionPhase(date, y, type) ==
    LET jan1 == NEW_APPLICATION_PERIOD_BEGINS(y)
        deadline == EXEMPTION_APPLICATION_DEADLINE_DATE(y)
        july1 == NEW_FY_PRELIMINARY_TAX_PERIOD_BEGINS(y)
        nextJan1 == NEW_APPLICATION_PERIOD_BEGINS(y + 1)
    IN  IF DateLT(date, jan1)
        THEN [phase |-> "before_jan1", hasDeadline |-> FALSE, deadline |-> NoDeadline,
              message |-> [exemption_type |-> type, next_year |-> y + 1, current_year |-> y,
                           jan1_date |-> formatDateForDisplay(jan1, FALSE)]]
        ELSE IF DateGE(date, jan1) /\ DateLE(date, deadline)
        THEN [phase |-> "open", hasDeadline |-> TRUE, deadline |-> deadline,
              message |-> [exemption_type |-> type, next_year |-> y + 1, current_year |-> y,
                           deadline_date |-> formatDateForDisplay(deadline, TRUE)]]
        ELSE IF DateGE(date, deadline) /\ DateLT(date, july1)
        THEN [phase |-> "after_deadline", hasDeadline |-> TRUE, deadline |-> deadline,
              message |-> [exemption_type |-> type, next_year |-> y + 1, current_year |-> y,
                           next_fy |-> y + 2,
                           deadline_date |-> formatDateForDisplay(deadline, FALSE),
                           next_jan1_date |-> formatDateForDisplay(nextJan1, FALSE)]]
        ELSE IF DateGE(date, july1) /\ DateLT(date, nextJan1)
        THEN [phase |-> "preliminary", hasDeadline |-> TRUE, deadline |-> deadline,
              message |-> [current_fy |-> y + 1, exemption_type |-> type, next_fy |-> y + 2,
                           next_jan1_date |-> formatDateForDisplay(nextJan1, FALSE)]]
        ELSE [phase |-> "before_jan1", hasDeadline |-> FALSE, deadline |-> NoDeadline,
              message |-> <<>>]

(***************************************************************************)
(* The phase specification: a clock runs over the three calendar years     *)
(* around year, and the phases are recomputed at every instant it shows.   *)
(***************************************************************************)
ExemptionTypes == {"Residential", "Personal"}

\* The instants of a day the clock shows: midnight, the next millisecond,
\* noon and the last millisecond.
MsSamples == {0, 1, MsPerDay \div 2, MsPerDay - 1}

SpanStart(y) == NewDate(y - 1, 0, 1)
SpanEnd(y) == AddDays(NewDate(y + 2, 0, 1), -1)

PhaseInit ==
    /\ BesidesPhaseIdle
    /\ year \in Years
    /\ now = SpanStart(year)
    /\ exemption = [type \in ExemptionTypes |-> getExemptionPhase(now, year, type)]
    /\ abatement = getAbatementPhase(now, year)

SetClock(date) ==
    /\ now' = date
    /\ exemption' = [type \in ExemptionTypes |-> getExemptionPhase(date, year, type)]
    /\ abatement' = getAbatementPhase(date, year)
    /\ UNCHANGED <<year, besidesPhase>>

\* The clock moves to the next instant of the same day.
Tick ==
    /\ \E ms \in MsSamples :
          /\ ms > now.ms
          /\ \A other \in MsSamples : other > now.ms => ms <= other
          /\ SetClock([now EXCEPT !.ms = ms])

\* The clock moves to midnight of the next day.
Midnight ==
    /\ now.day < SpanEnd(year).day
    /\ SetClock([day |-> now.day + 1, ms |-> 0])

\* The clock moves to midnight of the first day of the next month.
NextMonth ==
    LET first == NewDate(GetFullYear(now), GetMonth(now) + 1, 1)
    IN  /\ DateLE(first, SpanEnd(year))
        /\ SetClock(first)

PhaseNext == Tick \/ Midnight \/ NextMonth

PhaseSpec == PhaseInit /\ [][PhaseNext]_vars

(***************************************************************************)
(* Claims about the phases.                                                *)
(***************************************************************************)
PhaseRank(p) ==
    CASE p = "before_jan1" -> 0
      [] p = "open" -> 1
      [] p = "after_deadline" -> 2
      [] p = "preliminary" -> 3

ExemptionPhases == {"before_jan1", "open", "after_deadline", "preliminary"}

\* C1 (as claimed): over the three years from Jan 1 of year-1 to Dec 31 of
\* year+1 getExemptionPhase always returns one of the four phases and, as the
\* clock advances, the phase stays or moves to the next phase in the order
\* before_jan1, open, after_deadline, preliminary: it never skips a phase and
\* never returns to an earlier one.
C1_PhasesOnlyMoveForward ==
    /\ [](\A type \in ExemptionTypes : exemption[type].phase \in ExemptionPhases)
    /\ [][\A type \in ExemptionTypes :
             PhaseRank(exemption[type].phase') \in
                 {PhaseRank(exemption[type].phase), PhaseRank(exemption[type].phase) + 1}]_vars

OneTickAfter(date) == [date EXCEPT !.ms = @ + 1]

\* C2: at the instant of exemptionDeadline(year) the exemption phase is open,
\* and one millisecond later it is after_deadline.
C2_DeadlineInstantIsOpen ==
    \A type \in ExemptionTypes :
        /\ now = EXEMPTION_APPLICATION_DEADLINE_DATE(year) => exemption[type].phase = "open"
        /\ now = OneTickAfter(EXEMPTION_APPLICATION_DEADLINE_DATE(year))
              => exemption[type].phase = "after_deadline"

C2_Witness ==
    /\ year = 2026
    /\ now = OneTickAfter(EXEMPTION_APPLICATION_DEADLINE_DATE(2026))
    /\ exemption["Residential"].phase = "after_deadline"

\* C3: with C the calendar year of now, getAbatementPhase returns open iff
\* Jan 1 of C <= now <= abatementDeadline(C), after_deadline iff
\* abatementDeadline(C) < now < Jul 1 of C, preliminary iff
\* Jul 1 of C <= now < Jan 1 of C+1; and the phase is the same for every
\* reference year.
C3_AbatementWindows ==
    LET C == GetFullYear(now)
        jan1 == NewDate(C, 0, 1)
        deadline == ABATEMENT_APPLICATION_DEADLINE(C)
        july1 == NewDate(C, 6, 1)
        nextJan1 == NewDate(C + 1, 0, 1)
    IN  /\ abatement.phase = "open" <=> (DateLE(jan1, now) /\ DateLE(now, deadline))
        /\ abatement.phase = "after_deadline" <=> (DateLT(deadline, now) /\ DateLT(now, july1))
        /\ abatement.phase = "preliminary" <=> (DateLE(july1, now) /\ DateLT(now, nextJan1))
        /\ \A r \in Years : getAbatementPhase(now, r).phase = abatement.phase

C3_Witness ==
    /\ abatement.phase = "after_deadline"
    /\ GetFullYear(now) # year
    /\ now.ms = 1
    /\ now.day = ABATEMENT_APPLICATION_DEADLINE(GetFullYear(now)).day

\* C19: for the reference year and for the calendar year of the clock,
\* Jan 1 < abatementDeadline <= abatementGraceDeadline, abatementDeadline <
\* exemptionsInProgress, abatementDeadline < Jul 1 and exemptionDeadline <
\* Jul 1, and abatementGraceDeadline is abatementDeadline plus 28 days.
C19_AnchorOrder ==
    \A y \in {year, GetFullYear(now)} :
        LET jan1 == NEW_APPLICATION_PERIOD_BEGINS(y)
            abatementDeadline == ABATEMENT_APPLICATION_DEADLINE(y)
            graceDeadline == ABATEMENT_GRACE_PERIOD_DEADLINE(y)
            exemptionDeadline == EXEMPTION_APPLICATION_DEADLINE(y)
            july1 == NEW_FY_PRELIMINARY_TAX_PERIOD_BEGINS(y)
        IN  /\ DateLT(jan1, abatementDeadline)
            /\ DateLE(abatementDeadline, graceDeadline)
            /\ DateLT(abatementDeadline, EXEMPTIONS_IN_PROGRESS(y))
            /\ DateLT(abatementDeadline, july1)
            /\ DateLT(exemptionDeadline, july1)
            /\ graceDeadline.day = abatementDeadline.day + 28
            /\ graceDeadline.ms = abatementDeadline.ms

\* Feb 1 2025 is a Saturday: the abatement deadline of 2025 is Monday Feb 3,
\* and the clock shows its grace deadline, Mar 3.
C19_Witness ==
    /\ year = 2025
    /\ abatement.deadline = NewDate(2025, 1, 3)
    /\ now = ABATEMENT_GRACE_PERIOD_DEADLINE(2025)
    /\ now = NewDate(2025, 2, 3)

\* C20: getNextMonday of a Saturday is the date 2 days later, of a Sunday the
\* date 1 day later, a Monday in both cases, and of a Monday to Friday the
\* date itself; the abatement and the exemption deadline of a year never
\* fall on a Saturday or Sunday.
C20_NextMonday ==
    LET next == getNextMonday(now)
    IN  /\ GetDay(now) = 6 => (next.day = now.day + 2 /\ next.ms = now.ms /\ GetDay(next) = 1)
        /\ GetDay(now) = 0 => (next.day = now.day + 1 /\ next.ms = now.ms /\ GetDay(next) = 1)
        /\ GetDay(now) \in 1..5 => next = now
        /\ \A y \in {year, GetFullYear(now)} :
              /\ GetDay(ABATEMENT_APPLICATION_DEADLINE(y)) \in 1..5
              /\ GetDay(EXEMPTION_APPLICATION_DEADLINE(y)) \in 1..5
        /\ abatement.hasDeadline => GetDay(abatement.deadline) \in 1..5
        /\ \A type \in ExemptionTypes :
              exemption[type].hasDeadline => GetDay(exemption[type].deadline) \in 1..5

\* Feb 1 2026 is a Sunday and the clock shows it: the abatement deadline is
\* the day after, a Monday.
C20_Witness ==
    /\ now = NewDate(2026, 1, 1)
    /\ GetDay(now) = 0
    /\ abatement.deadline = AddDays(now, 1)
    /\ GetDay(abatement.deadline) = 1

\* C25 (as claimed): every instant of the calendar day of
\* exemptionDeadline(year) is classified open by getExemptionPhase, and every
\* instant of the calendar day of the abatement deadline is classified open
\* by getAbatementPhase.
C25_DeadlineDayIsOpen ==
    /\ \A type \in ExemptionTypes :
          now.day = EXEMPTION_APPLICATION_DEADLINE_DATE(year).day
              => exemption[type].phase = "open"
    /\ now.day = ABATEMENT_APPLICATION_DEADLINE(GetFullYear(now)).day
          => abatement.phase = "open"

\* What the code does on the deadline day: open at the instant of midnight,
\* after_deadline for the rest of the day.
DeadlineDayClosesAfterMidnight ==
    /\ \A type \in ExemptionTypes :
          now.day = EXEMPTION_APPLICATION_DEADLINE_DATE(year).day
              => exemption[type].phase = (IF now.ms = 0 THEN "open" ELSE "after_deadline")
    /\ now.day = ABATEMENT_APPLICATION_DEADLINE(GetFullYear(now)).day
          => abatement.phase = (IF now.ms = 0 THEN "open" ELSE "after_deadline")

\* C26: getAbatementPhase never takes its final fallback return: at every
\* instant the result carries a deadline and a message with parameters.
C26_FallbackUnreachable ==
    /\ abatement.hasDeadline
    /\ abatement.deadline # NoDeadline
    /\ abatement.message # <<>>
    /\ \A y \in Years : getAbatementPhase(now, y).hasDeadline

\* The clock shows the last instant of a year, where the third window ends.
C26_Witness ==
    /\ now = [day |-> NewDate(2026, 0, 1).day - 1, ms |-> MsPerDay - 1]
    /\ abatement.phase = "preliminary"
    /\ abatement.hasDeadline

(***************************************************************************)
(* index.ts: fetchEGISData(url, query).  The server's answer to the i-th   *)
(* page request is serverPages[i], a page [features, exceededTransferLimit]*)
(* whose features are numbered by page and position; any HTTP attempt may  *)
(* instead fail with a non-OK status or a network exception.               *)
(***************************************************************************)
maxRetries == 3
recordCount == 1000

PageFeatures(i, n) == [j \in 1..n |-> [page |-> i, index |-> j]]

Pages(i) ==
    { [features |-> PageFeatures(i, n), exceededTransferLimit |-> e] :
        n \in 0..MaxPageLen, e \in BOOLEAN }

\* setTimeout(resolve, 1000 * retryCount)
Backoff(retries) == 1000 * retries

FetchInit ==
    /\ BesidesFetchIdle
    /\ serverPages \in { f \in [1..MaxRequests -> UNION { Pages(i) : i \in 1..MaxRequests }] :
                           \A i \in 1..MaxRequests : f[i] \in Pages(i) }
    /\ fPc = "loop"
    /\ allFeatures = <<>>
    /\ resultOffset = 0
    /\ requestCount = 0
    /\ retryCount = 0
    /\ response = "none"
    /\ data = <<>>
    /\ requests = <<>>
    /\ attemptLog = <<>>
    /\ fetchResult = [kind |-> "pending"]

\* The top of the while (true) loop: the next page request is built.
PageRequest ==
    /\ fPc = "loop"
    /\ requestCount < MaxRequests
    /\ requestCount' = requestCount + 1
    /\ requests' = Append(requests, [resultOffset |-> resultOffset,
                                      resultRecordCount |-> recordCount])
    /\ retryCount' = 0
    /\ response' = "none"
    /\ data' = <<>>
    /\ attemptLog' = <<>>
    /\ fPc' = "retry"
    /\ UNCHANGED <<besidesFetch, serverPages, resultOffset, allFeatures, fetchResult>>

\* An attempt answered with an OK status: the body is read and the retry
\* loop is left.
AttemptOk ==
    /\ fPc = "retry"
    /\ retryCount < maxRetries
    /\ response' = "ok"
    /\ data' = <<serverPages[requestCount]>>
    /\ attemptLog' = Append(attemptLog, [outcome |-> "ok", delay |-> 0])
    /\ fPc' = "page"
    /\ UNCHANGED <<besidesFetch, serverPages, resultOffset, requestCount, retryCount,
                   allFeatures, requests, fetchResult>>

\* An attempt answered with a non-OK status: count it and back off.
AttemptNotOk ==
    /\ fPc = "retry"
    /\ retryCount < maxRetries
    /\ response' = "not_ok"
    /\ retryCount' = retryCount + 1
    /\ attemptLog' = Append(attemptLog, [outcome |-> "not_ok", delay |-> Backoff(retryCount + 1)])
    /\ fPc' = IF retryCount + 1 < maxRetries THEN "retry" ELSE "page"
    /\ UNCHANGED <<besidesFetch, serverPages, resultOffset, requestCount, allFeatures, data,
                   requests, fetchResult>>

\* What the caller gets when the call throws.
Thrown == [kind |-> "thrown"]

\* An attempt that throws (a network failure): count it; the last one is
\* rethrown to the caller, the others back off.
AttemptThrows ==
    /\ fPc = "retry"
    /\ retryCount < maxRetries
    /\ retryCount' = retryCount + 1
    /\ IF retryCount + 1 = maxRetries
       THEN /\ attemptLog' = Append(attemptLog, [outcome |-> "exception", delay |-> 0])
            /\ fPc' = "done"
            /\ fetchResult' = Thrown
       ELSE /\ attemptLog' = Append(attemptLog, [outcome |-> "exception",
                                                  delay |-> Backoff(retryCount + 1)])
            /\ fPc' = "retry"
            /\ UNCHANGED fetchResult
    /\ UNCHANGED <<besidesFetch, serverPages, resultOffset, requestCount, allFeatures,
                   response, data, requests>>

\* A variant of RetriesExhausted that gives the caller the pages fetched so far.
RetriesExhaustedReturnsPartial ==
    /\ fPc = "page"
    /\ response # "ok" \/ data = <<>>
    /\ fPc' = "done"
    /\ fetchResult' = [kind |-> "returned", features |-> allFeatures]
    /\ UNCHANGED <<besidesFetch, serverPages, resultOffset, requestCount, retryCount,
                   allFeatures, response, data, requests, attemptLog>>

\* After the retry loop without an OK response: the call throws.
RetriesExhausted ==
    /\ fPc = "page"
    /\ response # "ok" \/ data = <<>>
    /\ fPc' = "done"
    /\ fetchResult' = Thrown
    /\ UNCHANGED <<besidesFetch, serverPages, resultOffset, requestCount, retryCount,
                   allFeatures, response, data, requests, attemptLog>>

\* A variant of NextOffset that advances by the page size asked for.
NextOffsetByRecordCount(offset, features) == offset + recordCount

\* resultOffset += features.length
NextOffset(offset, features) == offset + Len(features)

\* After the retry loop with an OK response: an empty page ends the call, a
\* page is appended, and a page without exceededTransferLimit ends the call.
ProcessPage ==
    /\ fPc = "page"
    /\ response = "ok" /\ data # <<>>
    /\ LET features == data[1].features
       IN  IF Len(features) = 0
           THEN /\ fPc' = "done"
                /\ fetchResult' = [kind |-> "returned", features |-> allFeatures]
                /\ UNCHANGED <<allFeatures, resultOffset>>
           ELSE /\ allFeatures' = allFeatures \o features
                /\ IF ~data[1].exceededTransferLimit
                   THEN /\ fPc' = "done"
                        /\ fetchResult' = [kind |-> "returned",
                                            features |-> allFeatures \o features]
                        /\ UNCHANGED resultOffset
                   ELSE /\ fPc' = "loop"
                        /\ resultOffset' = NextOffset(resultOffset, features)
                        /\ UNCHANGED fetchResult
    /\ UNCHANGED <<besidesFetch, serverPages, requestCount, retryCount, response, data,
                   requests, attemptLog>>

FetchNext ==
    \/ PageRequest
    \/ AttemptOk
    \/ AttemptNotOk
    \/ AttemptThrows
    \/ RetriesExhausted
    \/ ProcessPage

FetchSpec == FetchInit /\ [][FetchNext]_vars

(***************************************************************************)
(* fetchEGISData against a server that goes on answering: every page       *)
(* request after the MaxRequests-th is answered as the MaxRequests-th was. *)
(* The loop itself has no bound on its rounds; past MaxRequests rounds the  *)
(* model no longer counts them: requestCount and the request log stay as   *)
(* they are, and allFeatures and resultOffset are followed up to           *)
(* MaxRequests full pages.                                                 *)
(***************************************************************************)
FollowedFeatures == MaxRequests * MaxPageLen

Followed(features) ==
    IF Len(features) > FollowedFeatures THEN SubSeq(features, 1, FollowedFeatures) ELSE features

\* The top of the while (true) loop, in a round past the MaxRequests-th.
PageRequestBeyond ==
    /\ fPc = "loop"
    /\ requestCount = MaxRequests
    /\ retryCount' = 0
    /\ response' = "none"
    /\ data' = <<>>
    /\ attemptLog' = <<>>
    /\ fPc' = "retry"
    /\ UNCHANGED <<besidesFetch, serverPages, resultOffset, requestCount, allFeatures,
                   requests, fetchResult>>

\* ProcessPage, with allFeatures and resultOffset followed up to
\* FollowedFeatures.
ProcessPageBeyond ==
    /\ fPc = "page"
    /\ response = "ok" /\ data # <<>>
    /\ LET features == data[1].features
       IN  IF Len(features) = 0
           THEN /\ fPc' = "done"
                /\ fetchResult' = [kind |-> "returned", features |-> allFeatures]
                /\ UNCHANGED <<allFeatures, resultOffset>>
           ELSE /\ allFeatures' = Followed(allFeatures \o features)
                /\ IF ~data[1].exceededTransferLimit
                   THEN /\ fPc' = "done"
                        /\ fetchResult' = [kind |-> "returned",
                                            features |-> Followed(allFeatures \o features)]
                        /\ UNCHANGED resultOffset
                   ELSE /\ fPc' = "loop"
                        /\ resultOffset' =
                              IF NextOffset(resultOffset, features) > FollowedFeatures
                              THEN FollowedFeatures
                              ELSE NextOffset(resultOffset, features)
                        /\ UNCHANGED fetchResult
    /\ UNCHANGED <<besidesFetch, serverPages, requestCount, retryCount, response, data,
                   requests, attemptLog>>

FetchOnNext ==
    \/ PageRequest
    \/ PageRequestBeyond
    \/ AttemptOk
    \/ AttemptNotOk
    \/ AttemptThrows
    \/ RetriesExhausted
    \/ ProcessPageBeyond

\* Every await of the call settles, so the call always takes its next step.
FetchOnSpec == FetchInit /\ [][FetchOnNext]_vars /\ WF_vars(FetchOnNext)

(***************************************************************************)
(* Claims about fetchEGISData.                                             *)
(***************************************************************************)
RECURSIVE FeaturesReceivedBefore(_)
\* The number of features on the server's pages before page i.
FeaturesReceivedBefore(i) ==
    IF i <= 1 THEN 0
    ELSE FeaturesReceivedBefore(i - 1) + Len(serverPages[i - 1].features)

RECURSIVE ConcatPages(_)
\* The features of the server's pages 1..n, in order.
ConcatPages(n) ==
    IF n = 0 THEN <<>> ELSE ConcatPages(n - 1) \o serverPages[n].features

\* The server's first k pages each carry a feature and exceededTransferLimit,
\* and page k+1 carries no exceededTransferLimit.
ExceededForFirst(k) ==
    /\ \A i \in 1..k : /\ serverPages[i].exceededTransferLimit
                          /\ Len(serverPages[i].features) >= 1
    /\ ~serverPages[k + 1].exceededTransferLimit

Returned == fPc = "done" /\ fetchResult.kind = "returned"

\* C5: when the first k pages carry exceededTransferLimit (and a feature each)
\* and page k+1 does not, a call that returns has made exactly k+1 page
\* requests, each with resultOffset equal to the number of features of the
\* earlier pages (so strictly increasing), and returns the concatenation of
\* the k+1 pages in request order.
C5_Pagination ==
    \A k \in 0..(MaxRequests - 1) :
        (Returned /\ ExceededForFirst(k)) =>
            /\ requestCount = k + 1
            /\ Len(requests) = k + 1
            /\ \A i \in 1..(k + 1) : requests[i].resultOffset = FeaturesReceivedBefore(i)
            /\ \A i \in 1..k : requests[i].resultOffset < requests[i + 1].resultOffset
            /\ fetchResult.features = ConcatPages(k + 1)

\* The response sequence [true, true, false]: three requests, three pages.
C5_Witness ==
    /\ Returned
    /\ ExceededForFirst(2)
    /\ requestCount = 3
    /\ Len(serverPages[1].features) = 2
    /\ Len(serverPages[3].features) = 1
    /\ Len(fetchResult.features) >= 4

AllAttemptsFailed ==
    /\ Len(attemptLog) = maxRetries
    /\ \A i \in 1..Len(attemptLog) : attemptLog[i].outcome # "ok"

ServerStops ==
    \E i \in 1..MaxRequests :
        Len(serverPages[i].features) = 0 \/ ~serverPages[i].exceededTransferLimit

\* C27 (as claimed): whatever the server answers, the call ends: it returns
\* or throws after finitely many page requests.
C27_Terminates == <>(fPc = "done")

\* What the code gives: the call ends when the server sends an empty page or
\* a page without exceededTransferLimit.
TerminatesWhenServerStops == ServerStops => <>(fPc = "done")

(***************************************************************************)
(* JavaScript values of EGIS attributes.  A value is null, undefined, a    *)
(* number or a string; a string is the sequence of its characters.         *)
(***************************************************************************)
Null == [t |-> "null", n |-> 0, s |-> <<>>]
Undefined == [t |-> "undefined", n |-> 0, s |-> <<>>]
Num(n) == [t |-> "num", n |-> n, s |-> <<>>]
Str(s) == [t |-> "str", n |-> 0, s |-> s]
NaN == [t |-> "nan", n |-> 0, s |-> <<>>]

\* JavaScript truthiness: null, undefined, NaN, 0 and "" are falsy.
Falsy(v) ==
    \/ v.t \in {"null", "undefined", "nan"}
    \/ (v.t = "num" /\ v.n = 0)
    \/ (v.t = "str" /\ v.s = <<>>)

\* a || b
OrElse(a, b) == IF Falsy(a) THEN b ELSE a

UpperChars == <<"A", "B", "C", "D", "E", "F", "G", "H", "I", "J", "K", "L", "M",
                "N", "O", "P", "Q", "R", "S", "T", "U", "V", "W", "X", "Y", "Z">>
LowerChars == <<"a", "b", "c", "d", "e", "f", "g", "h", "i", "j", "k", "l", "m",
                "n", "o", "p", "q", "r", "s", "t", "u", "v", "w", "x", "y", "z">>
DigitChars == {"0", "1", "2", "3", "4", "5", "6", "7", "8", "9"}

Range(f) == { f[i] : i \in DOMAIN f }
IsUpper(c) == c \in Range(UpperChars)
IsLower(c) == c \in Range(LowerChars)
\* \w
IsWordChar(c) == IsUpper(c) \/ IsLower(c) \/ c \in DigitChars \/ c = "_"
IndexIn(seq, c) == CHOOSE i \in DOMAIN seq : seq[i] = c
ToLowerChar(c) == IF IsUpper(c) THEN LowerChars[IndexIn(UpperChars, c)] ELSE c
ToUpperChar(c) == IF IsLower(c) THEN UpperChars[IndexIn(LowerChars, c)] ELSE c

\* str.toLowerCase()
ToLowerCase(str) == [i \in DOMAIN str |-> ToLowerChar(str[i])]

RECURSIVE TrimStart(_)
TrimStart(str) ==
    IF str # <<>> /\ Head(str) = " " THEN TrimStart(Tail(str)) ELSE str

RECURSIVE TrimEnd(_)
TrimEnd(str) ==
    IF str # <<>> /\ str[Len(str)] = " " THEN TrimEnd(SubSeq(str, 1, Len(str) - 1)) ELSE str

\* str.trim()
Trim(str) == TrimEnd(TrimStart(str))

\* /^[A-Z0-9 .,'&-]+$/.test(str)
IsUpperToken(str) ==
    /\ str # <<>>
    /\ \A i \in DOMAIN str :
          IsUpper(str[i]) \/ str[i] \in DigitChars \/ str[i] \in {" ", ".", ",", "'", "&", "-"}

\* str.replace(/\b\w/g, c => c.toUpperCase()): upper-cases every word
\* character that starts the string or follows a non-word character.
CapitalizeWords(str) ==
    [i \in DOMAIN str |->
        IF IsWordChar(str[i]) /\ (i = 1 \/ ~IsWordChar(str[i - 1]))
        THEN ToUpperChar(str[i]) ELSE str[i]]

\* index.ts: toProperCase(str), as a string.  Numbers do not reach it in the
\* model.
toProperCase(v) ==
    IF v.t \in {"null", "undefined"} THEN <<>>
    ELSE IF v.s = <<>> \/ Trim(v.s) = <<>> THEN <<>>
    ELSE IF IsUpperToken(v.s) /\ Len(v.s) <= 6 THEN v.s
    ELSE CapitalizeWords(ToLowerCase(v.s))

\* str.indexOf(" - "), 1-based; 0 when absent.
IndexOfDash(str) ==
    LET hits == { i \in 1..(Len(str) - 2) :
                    str[i] = " " /\ str[i + 1] = "-" /\ str[i + 2] = " " }
    IN  IF hits = {} THEN 0 ELSE CHOOSE i \in hits : \A j \in hits : i <= j

\* index.ts: parseAfterDash(value), as a string.
parseAfterDash(v) ==
    IF v.t \in {"null", "undefined"} THEN <<>>
    ELSE IF v.s = <<>> \/ Trim(v.s) = <<>> THEN <<>>
    ELSE LET idx == IndexOfDash(v.s)
             result == IF idx # 0 THEN Trim(SubSeq(v.s, idx + 3, Len(v.s))) ELSE Trim(v.s)
         IN  toProperCase(Str(result))

\* index.ts: prioritizeValue(residentialValue, condoValue)
isValid(v) ==
    /\ v.t # "null"
    /\ v.t # "undefined"
    /\ (IF v.t = "num" THEN TRUE ELSE v.s # <<>>)

prioritizeValue(residentialValue, condoValue) ==
    IF isValid(residentialValue) THEN residentialValue
    ELSE IF isValid(condoValue) THEN condoValue
    ELSE Undefined

(***************************************************************************)
(* index.ts: fetchPropertyDetailsByParcelIdHelper, the merge of the        *)
(* residential and condo attributes into the record.                       *)
(***************************************************************************)
NotAvailable == Str(<<"N", "o", "t", " ", "a", "v", "a", "i", "l", "a", "b", "l", "e">>)

ResidentialNumbers == {Null, Num(0), Num(2)}
CondoNumbers == {Null, Num(0), Num(3)}
ResidentialStrings ==
    { Null, Str(<<>>), Str(<<"C", "o", "n", "c", "r", "e", "t", "e">>),
      Str(<<"C", " ", "-", " ", "P", "O", "U", "R", "E", "D", " ",
            "C", "O", "N", "C", "R", "E", "T", "E">>) }
CondoStrings == { Null, Str(<<>>), Str(<<"B", "r", "i", "c", "k">>) }

\* The attributes of a row that the model follows.
Attributes(count1, count2, text1, text2) ==
    [ bedrooms |-> count1, kitchens |-> count1, num_of_parking_spots |-> count1,
      half_bath |-> count2, fireplaces |-> count2,
      foundation |-> text1,
      roof_cover |-> text2, story_height |-> text2 ]

MergeInit ==
    /\ BesidesMergeIdle
    /\ primaryResidentialAttrs \in
          { Attributes(a, b, f, r) : a \in ResidentialNumbers, b \in ResidentialNumbers,
                                     f \in ResidentialStrings, r \in ResidentialStrings }
    /\ condoAttrs \in
          { Attributes(a, b, f, r) : a \in CondoNumbers, b \in CondoNumbers,
                                     f \in CondoStrings, r \in CondoStrings }
    /\ propertyDetails = [composed |-> FALSE]

\* toProperCase(parseAfterDash(value))
ProperAfterDash(v) == Str(toProperCase(Str(parseAfterDash(v))))

\* new PropertyDetails({...}): the property attribute fields.
ComposePropertyDetails ==
    /\ ~propertyDetails.composed
    /\ propertyDetails' =
         [ composed |-> TRUE,
           bedroomNumber |->
               OrElse(prioritizeValue(primaryResidentialAttrs.bedrooms, condoAttrs.bedrooms),
                      Undefined),
           halfBathrooms |->
               OrElse(prioritizeValue(primaryResidentialAttrs.half_bath, condoAttrs.half_bath),
                      Undefined),
           numberOfKitchens |->
               OrElse(prioritizeValue(primaryResidentialAttrs.kitchens, condoAttrs.kitchens),
                      Undefined),
           parkingSpots |->
               OrElse(prioritizeValue(primaryResidentialAttrs.num_of_parking_spots,
                                      condoAttrs.num_of_parking_spots),
                      Undefined),
           fireplaces |->
               OrElse(prioritizeValue(primaryResidentialAttrs.fireplaces, condoAttrs.fireplaces),
                      Undefined),
           storyHeight |->
               OrElse(prioritizeValue(Str(toProperCase(primaryResidentialAttrs.story_height)),
                                      Str(toProperCase(condoAttrs.story_height))),
                      NotAvailable),
           roofCover |->
               OrElse(prioritizeValue(ProperAfterDash(primaryResidentialAttrs.roof_cover),
                                      ProperAfterDash(condoAttrs.roof_cover)),
                      Undefined),
           foundation |->
               OrElse(prioritizeValue(ProperAfterDash(primaryResidentialAttrs.foundation),
                                      ProperAfterDash(condoAttrs.foundation)),
                      NotAvailable) ]
    /\ UNCHANGED <<besidesMerge, primaryResidentialAttrs, condoAttrs>>

MergeNext == ComposePropertyDetails

MergeSpec == MergeInit /\ [][MergeNext]_vars

(***************************************************************************)
(* Claims about the merge.                                                 *)
(***************************************************************************)
\* Present: not null, not the empty string; the number 0 is present.
Present(v) == v.t \in {"num", "str"} /\ ~(v.t = "str" /\ v.s = <<>>)

\* The residential value when present, otherwise the condo value when
\* present, otherwise the field is left out.
ResidentialElseCondo(residentialValue, condoValue, omitted) ==
    IF Present(residentialValue) THEN residentialValue
    ELSE IF Present(condoValue) THEN condoValue
    ELSE omitted

\* C4 (as claimed): every merged attribute is the residential value when that
\* is present (0 counts as present), otherwise the condo value when present,
\* otherwise omitted; a residential 0 for bedrooms, half baths, kitchens,
\* fireplaces or parking spots appears as 0 in the record.
C4_ResidentialValueWins ==
    propertyDetails.composed =>
        LET r == primaryResidentialAttrs
            c == condoAttrs
        IN  /\ propertyDetails.bedroomNumber =
                    ResidentialElseCondo(r.bedrooms, c.bedrooms, Undefined)
            /\ propertyDetails.halfBathrooms =
                    ResidentialElseCondo(r.half_bath, c.half_bath, Undefined)
            /\ propertyDetails.numberOfKitchens =
                    ResidentialElseCondo(r.kitchens, c.kitchens, Undefined)
            /\ propertyDetails.fireplaces =
                    ResidentialElseCondo(r.fireplaces, c.fireplaces, Undefined)
            /\ propertyDetails.parkingSpots =
                    ResidentialElseCondo(r.num_of_parking_spots, c.num_of_parking_spots,
                                         Undefined)
            /\ propertyDetails.roofCover =
                    ResidentialElseCondo(ProperAfterDash(r.roof_cover),
                                         ProperAfterDash(c.roof_cover), Undefined)
            /\ propertyDetails.foundation =
                    ResidentialElseCondo(ProperAfterDash(r.foundation),
                                         ProperAfterDash(c.foundation), NotAvailable)

(***************************************************************************)
(* index.ts: filterForHighestFiscalYearAndQuarter(features, options).      *)
(* A row carries fiscal_year, bill_year and quarter attributes, each of    *)
(* which may be missing; quarter is a string in the layers.                *)
(***************************************************************************)
\* The most rows of a layer.
MaxRows == 3

RowYears == {2024, 2025}
RowQuarters == {"1", "3"}

Row(yearField, n, q) ==
    [fiscal_year |-> IF yearField = "fiscal_year" THEN Num(n) ELSE Undefined,
     bill_year |-> IF yearField = "bill_year" THEN Num(n) ELSE Undefined,
     quarter |-> q]

\* Rows of the layers keyed by fiscal_year and quarter (6, 7, 9, 10).
QuarterRows == { Row("fiscal_year", n, Str(<<c>>)) : n \in RowYears, c \in RowQuarters }
\* Rows of Layer 13 (real estate): fiscal_year, no quarter field.
RealEstateRows == { Row("fiscal_year", n, Undefined) : n \in RowYears }
\* Rows of Layer 12 (taxes): bill_year, no quarter field.
TaxesRows == { Row("bill_year", n, Undefined) : n \in RowYears }

NoOptions == [yearField |-> "undefined", hasQuarter |-> "undefined"]
NoQuarterOption == [yearField |-> "undefined", hasQuarter |-> "false"]
BillYearOptions == [yearField |-> "bill_year", hasQuarter |-> "false"]

\* The calls of index.ts: the rows of a layer and the options passed.
LayerCalls ==
    { [rows |-> QuarterRows, options |-> NoOptions],
      [rows |-> RealEstateRows, options |-> NoOptions],
      [rows |-> RealEstateRows, options |-> NoQuarterOption],
      [rows |-> TaxesRows, options |-> BillYearOptions] }

DigitValue(c) == CHOOSE n \in 0..9 : <<"0", "1", "2", "3", "4", "5", "6", "7", "8", "9">>[n + 1] = c

RECURSIVE LeadingDigits(_)
LeadingDigits(str) ==
    IF str # <<>> /\ Head(str) \in DigitChars
    THEN <<Head(str)>> \o LeadingDigits(Tail(str))
    ELSE <<>>

RECURSIVE DigitsValue(_)
DigitsValue(digits) ==
    IF digits = <<>> THEN 0
    ELSE 10 * DigitsValue(SubSeq(digits, 1, Len(digits) - 1)) + DigitValue(digits[Len(digits)])

\* parseInt(value): the leading digits of the string form, NaN without any
\* (null and undefined read "null" and "undefined").
ParseInt(v) ==
    IF v.t = "num" THEN v
    ELSE IF v.t = "str" /\ LeadingDigits(TrimStart(v.s)) # <<>>
         THEN Num(DigitsValue(LeadingDigits(TrimStart(v.s))))
         ELSE NaN

\* options?.yearField || 'fiscal_year'
YearField(opts) == IF opts.yearField = "undefined" THEN "fiscal_year" ELSE opts.yearField
\* options?.hasQuarter !== false
HasQuarter(opts) == opts.hasQuarter # "false"

\* feature.attributes?.[yearField]
YearAttribute(row, yearField) ==
    IF yearField = "fiscal_year" THEN row.fiscal_year ELSE row.bill_year

RECURSIVE FindMax(_, _, _)
\* The first loop: maxYear and maxQuarter after the rows of features.
FindMax(rows, yearField, hasQuarter) ==
    IF rows = <<>> THEN [maxYear |-> 0, maxQuarter |-> 0]
    ELSE LET before == FindMax(SubSeq(rows, 1, Len(rows) - 1), yearField, hasQuarter)
             row == rows[Len(rows)]
             rowYear == OrElse(YearAttribute(row, yearField), Num(0)).n
             rowQuarter == IF hasQuarter THEN OrElse(ParseInt(row.quarter), Num(0)).n ELSE 0
         IN  IF \/ rowYear > before.maxYear
                \/ (rowYear = before.maxYear /\ rowQuarter > before.maxQuarter)
             THEN [maxYear |-> rowYear, maxQuarter |-> rowQuarter]
             ELSE before

\* The second loop: the rows that match maxYear (and maxQuarter).
filterForHighestFiscalYearAndQuarter(rows, opts) ==
    IF Len(rows) = 0 THEN <<>>
    ELSE LET yearField == YearField(opts)
             hasQuarter == HasQuarter(opts)
             max == FindMax(rows, yearField, hasQuarter)
             Matches(f) ==
                 LET yearMatch == YearAttribute(f, yearField) = Num(max.maxYear)
                 IN  IF ~hasQuarter THEN yearMatch
                     ELSE yearMatch /\ ParseInt(f.quarter) = Num(max.maxQuarter)
         IN  SelectSeq(rows, Matches)

FilterInit ==
    /\ BesidesFilterIdle
    /\ \E call \in LayerCalls :
          /\ filterFeatures \in UNION { [1..n -> call.rows] : n \in 0..MaxRows }
          /\ filterOptions = call.options
    /\ filterResult = [returned |-> FALSE]

\* features = filterForHighestFiscalYearAndQuarter(features, options)
FilterForHighest ==
    /\ ~filterResult.returned
    /\ filterResult' =
          [returned |-> TRUE,
           rows |-> filterForHighestFiscalYearAndQuarter(filterFeatures, filterOptions)]
    /\ UNCHANGED <<besidesFilter, filterFeatures, filterOptions>>

FilterNext == FilterForHighest

FilterSpec == FilterInit /\ [][FilterNext]_vars

(***************************************************************************)
(* Claims about the latest-version filter.                                 *)
(***************************************************************************)
\* The (year, quarter) pair of a row; a missing year or quarter counts as 0,
\* and year-only layers compare the year alone.
RowKey(row) ==
    [year |-> OrElse(YearAttribute(row, YearField(filterOptions)), Num(0)).n,
     quarter |-> IF HasQuarter(filterOptions)
                 THEN OrElse(ParseInt(row.quarter), Num(0)).n ELSE 0]

\* Lexicographic order: year first, then quarter.
KeyLE(a, b) == a.year < b.year \/ (a.year = b.year /\ a.quarter <= b.quarter)

IsLatest(row) == \A i \in DOMAIN filterFeatures : KeyLE(RowKey(filterFeatures[i]), RowKey(row))

\* C7 (as claimed): the filter returns exactly the rows whose (year, quarter)
\* pair is the lexicographic maximum over the layer's rows (the year alone
\* for year-only layers), so a non-empty input gives a non-empty result.
C7_LatestRowsKept ==
    filterResult.returned =>
        /\ filterResult.rows = SelectSeq(filterFeatures, IsLatest)
        /\ (filterFeatures # <<>> => filterResult.rows # <<>>)

(***************************************************************************)
(* The tax rate lookups: getTaxRates of fiscalData.ts, and getTaxRates of  *)
(* taxRates.ts, which usePropertyTaxesContent calls.  Rates are in cents   *)
(* per $1,000.  The configuration files are not part of the sources: the   *)
(* model takes any configuration over ConfigYears, and gives taxRates.yaml *)
(* the same years, rates and defaults as fiscalData.yaml.                  *)
(***************************************************************************)
ConfigYears == FirstConfigYear..LastConfigYear

\* README: the default rates and the FY2026 rates.
RateSamples ==
    { [residential |-> 1158, commercial |-> 2596],
      [residential |-> 1240, commercial |-> 2696] }

DefaultRates == [residential |-> 1158, commercial |-> 2596]

\* The fiscal years looked up: the README's FY2016 and FY2031 and the years
\* around the configured ones.
LookupYears == {2016, 2031} \cup ((FirstConfigYear - 1)..(LastConfigYear + 1))

Configs ==
    { [fiscalYears |-> [y \in S |-> [taxRates |-> rates[y]]],
       defaults |-> [taxRates |-> DefaultRates]] :
        S \in SUBSET ConfigYears, rates \in [ConfigYears -> RateSamples] }

\* A variant of getTaxRates that fills every unconfigured year, gaps and
\* past years included, with the latest configured year's rates.
getTaxRatesFillingGaps(cfg, fy) ==
    LET years == DOMAIN cfg.fiscalYears
    IN  IF fy \in years THEN cfg.fiscalYears[fy].taxRates
        ELSE IF years # {}
             THEN cfg.fiscalYears[CHOOSE y \in years : \A z \in years : z <= y].taxRates
             ELSE cfg.defaults.taxRates

\* fiscalData.ts: getTaxRates(fiscalYear), with getLatestFiscalYear().
\* Without configured years Math.max() is -Infinity, every year is greater
\* and fiscalYears[-Infinity] is undefined.
getTaxRates(cfg, fy) ==
    LET years == DOMAIN cfg.fiscalYears
    IN  IF fy \in years THEN cfg.fiscalYears[fy].taxRates
        ELSE IF years # {} /\ fy > (CHOOSE y \in years : \A z \in years : z <= y)
             THEN cfg.fiscalYears[CHOOSE y \in years : \A z \in years : z <= y].taxRates
             ELSE cfg.defaults.taxRates

\* taxRates.yaml, holding what fiscalData.yaml holds.
TaxRatesConfig(cfg) ==
    [taxRates |-> [y \in DOMAIN cfg.fiscalYears |-> cfg.fiscalYears[y].taxRates],
     defaultRates |-> cfg.defaults.taxRates]

\* taxRates.ts: getTaxRates(fiscalYear)
taxRatesTsGetTaxRates(cfg, fy) ==
    IF fy \in DOMAIN cfg.taxRates THEN cfg.taxRates[fy] ELSE cfg.defaultRates

RatesInit ==
    /\ BesidesRatesIdle
    /\ config \in Configs
    /\ fiscalYear \in LookupYears
    /\ ratesResult = <<>>
    /\ hookTaxRates = <<>>

\* fiscalData.ts: a call getTaxRates(fiscalYear)
GetTaxRates ==
    /\ ratesResult = <<>>
    /\ ratesResult' = <<getTaxRates(config, fiscalYear)>>
    /\ UNCHANGED <<besidesRates, config, fiscalYear, hookTaxRates>>

\* usePropertyTaxesContent: const taxRates = getTaxRates(displayFY), the
\* getTaxRates imported from @utils/taxRates.
UsePropertyTaxesContent ==
    /\ hookTaxRates = <<>>
    /\ hookTaxRates' = <<taxRatesTsGetTaxRates(TaxRatesConfig(config), fiscalYear)>>
    /\ UNCHANGED <<besidesRates, config, fiscalYear, ratesResult>>

RatesNext == GetTaxRates \/ UsePropertyTaxesContent

RatesSpec == RatesInit /\ [][RatesNext]_vars

(***************************************************************************)
(* Claims about the tax rates.                                             *)
(***************************************************************************)
Configured == DOMAIN config.fiscalYears

\* C8: getTaxRates(fiscalYear) is the configured rates of a configured year;
\* for a year above the highest configured year, that year's rates; for any
\* other year (a gap, or a year before the earliest) the default rates.  With
\* only 2026 configured, 2031 gets the 2026 rates and 2016 the defaults.
C8_TaxRatesFallback ==
    ratesResult # <<>> =>
        /\ fiscalYear \in Configured => ratesResult[1] = config.fiscalYears[fiscalYear].taxRates
        /\ \A latest \in Configured :
              ((\A y \in Configured : y <= latest) /\ fiscalYear > latest)
                  => ratesResult[1] = config.fiscalYears[latest].taxRates
        /\ (fiscalYear \notin Configured /\ \E y \in Configured : y > fiscalYear)
              => ratesResult[1] = config.defaults.taxRates
        /\ Configured = {} => ratesResult[1] = config.defaults.taxRates
        /\ (Configured = {2026} /\ fiscalYear = 2031)
              => ratesResult[1] = config.fiscalYears[2026].taxRates
        /\ (Configured = {2026} /\ fiscalYear = 2016)
              => ratesResult[1] = config.defaults.taxRates

\* Only FY2026 is configured, with rates other than the defaults, and FY2031
\* was looked up.
C8_Witness ==
    /\ Configured = {2026}
    /\ config.fiscalYears[2026].taxRates # config.defaults.taxRates
    /\ fiscalYear = 2031
    /\ ratesResult = <<config.fiscalYears[2026].taxRates>>

\* C9 (as claimed): the rates the hook shows for a fiscal year are those
\* getTaxRates of fiscalData.ts gives for it; beyond the latest configured
\* year they are the latest configured year's rates.
C9_HookRatesForwardFill ==
    hookTaxRates # <<>> =>
        /\ hookTaxRates[1] = getTaxRates(config, fiscalYear)
        /\ \A latest \in Configured :
              ((\A y \in Configured : y <= latest) /\ fiscalYear > latest)
                  => hookTaxRates[1] = config.fiscalYears[latest].taxRates

(***************************************************************************)
(* The generatePdf callable.  parcelId and formType are taken to pass      *)
(* their validation; the date is a string (the sequence of its             *)
(* characters), a number, or missing.                                      *)
(***************************************************************************)
Digits == <<"0", "1", "2", "3", "4", "5", "6", "7", "8", "9">>

RECURSIVE Pad(_, _)
\* The decimal digits of n, padded with zeros to width characters.
Pad(n, width) ==
    IF width = 0 THEN <<>> ELSE Pad(n \div 10, width - 1) \o <<Digits[(n % 10) + 1]>>

\* The string YYYY-MM-DD written with the given numbers.
DateString(y, m, d) == Pad(y, 4) \o <<"-">> \o Pad(m, 2) \o <<"-">> \o Pad(d, 2)

RequestYears == {2025, 2026}
RequestMonths == {0, 1, 2, 6, 7, 12, 13}
RequestDays == {0, 1, 28, 29, 30, 31, 32}

\* The values of data.date: YYYY-MM-DD strings of real and unreal dates,
\* strings of another form, the empty string, a number and no date.
RequestDates ==
    { Str(DateString(y, m, d)) : y \in RequestYears, m \in RequestMonths, d \in RequestDays }
    \cup { Str(<<"2", "0", "2", "6", "-", "6", "-", "1">>),
           Str(<<"0", "6", "/", "0", "1", "/", "2", "0", "2", "6">>),
           Str(<<>>), Num(20260601), Undefined }

FormTypes == {"residential", "personal", "abatement"}

\* /^\d{4}-\d{2}-\d{2}$/.test(str)
IsDateFormat(str) ==
    /\ Len(str) = 10
    /\ \A i \in {1, 2, 3, 4, 6, 7, 9, 10} : str[i] \in DigitChars
    /\ str[5] = "-"
    /\ str[8] = "-"

\* data.date.split("-").map(Number), for a string of the date format
SplitDate(str) ==
    [year |-> DigitsValue(SubSeq(str, 1, 4)),
     month |-> DigitsValue(SubSeq(str, 6, 7)),
     day |-> DigitsValue(SubSeq(str, 9, 10))]

\* index.ts: getFiscalYearAndQuarter(date)
getFiscalYearAndQuarter(date) ==
    IF GetMonth(date) < 6
    THEN [year |-> GetFullYear(date), quarter |-> "3"]
    ELSE [year |-> GetFullYear(date) + 1, quarter |-> "1"]

\* C21: getFiscalYear(date) and getFiscalYearAndQuarter(date).year are equal
\* at every instant: Y from Jan 1 to Jun 30 of calendar year Y, with quarter
\* "3", and Y + 1 from Jul 1 to Dec 31 of Y, with quarter "1".
C21_FiscalYearsAgree ==
    LET frontend == getFiscalYear(now)
        backend == getFiscalYearAndQuarter(now)
    IN  /\ frontend = backend.year
        /\ backend.quarter \in {"1", "3"}
        /\ \A Y \in (MinYear - 1)..(MaxYear + 1) :
              /\ (DateLE(NewDate(Y, 0, 1), now) /\ DateLT(now, NewDate(Y, 6, 1)))
                    <=> (frontend = Y /\ backend.quarter = "3")
              /\ (DateLE(NewDate(Y, 6, 1), now) /\ DateLT(now, NewDate(Y + 1, 0, 1)))
                    <=> (frontend = Y + 1 /\ backend.quarter = "1")

\* The clock shows the first instant of July 1: both fiscal years have moved on.
C21_Witness ==
    /\ now = NewDate(2026, 6, 1)
    /\ getFiscalYear(now) = 2027
    /\ getFiscalYearAndQuarter(now) = [year |-> 2027, quarter |-> "1"]
    /\ getFiscalYear([day |-> now.day - 1, ms |-> MsPerDay - 1]) = 2026

Rejected(message) == [kind |-> "rejected", message |-> message]
ErrorResponse(message) == [kind |-> "error", message |-> message]
SuccessResponse(fy, cached) == [kind |-> "success", fiscalYear |-> fy, cached |-> cached]

PdfInit ==
    /\ BesidesPdfIdle
    /\ pdfData \in [formType : FormTypes, date : RequestDates]
    /\ pdfToday \in {NewDate(2026, 5, 30), NewDate(2026, 6, 1)}
    /\ pdfPc = "validate"
    /\ pdfDate = <<>>
    /\ pdfFiscalYear = <<>>
    /\ pdfCalls = <<>>
    /\ pdfResponse = [kind |-> "pending"]

\* The date the request is handled for, once data.date has passed the
\* format test: new Date(year, month - 1, day), which is never NaN.
ParsedDate(str) ==
    LET parts == SplitDate(str)
    IN  NewDate(parts.year, parts.month - 1, parts.day)

\* The synchronous head of the handler: the date is validated and parsed,
\* or taken from the clock, and the fiscal year computed.
ValidateRequest ==
    /\ pdfPc = "validate"
    /\ IF Falsy(pdfData.date)
       THEN /\ pdfDate' = <<pdfToday>>
            /\ pdfFiscalYear' = <<getFiscalYearAndQuarter(pdfToday).year>>
            /\ pdfPc' = "fetch"
            /\ UNCHANGED pdfResponse
       ELSE IF pdfData.date.t # "str"
       THEN /\ pdfResponse' = Rejected("date must be a string in YYYY-MM-DD format")
            /\ pdfPc' = "done"
            /\ UNCHANGED <<pdfDate, pdfFiscalYear>>
       ELSE IF ~IsDateFormat(pdfData.date.s)
       THEN /\ pdfResponse' = Rejected("date must be in YYYY-MM-DD format")
            /\ pdfPc' = "done"
            /\ UNCHANGED <<pdfDate, pdfFiscalYear>>
       ELSE /\ pdfDate' = <<ParsedDate(pdfData.date.s)>>
            /\ pdfFiscalYear' = <<getFiscalYearAndQuarter(ParsedDate(pdfData.date.s)).year>>
            /\ pdfPc' = "fetch"
            /\ UNCHANGED pdfResponse
    /\ UNCHANGED <<besidesPdf, pdfData, pdfToday, pdfCalls>>

\* fetchPropertyDetailsByParcelIdHelper(data.parcelId): the property is
\* found, or not found, or the fetch throws.
FetchPropertyDetails ==
    /\ pdfPc = "fetch"
    /\ pdfCalls' = Append(pdfCalls, "fetchPropertyDetailsByParcelIdHelper")
    /\ \E outcome \in {"found", "not found", "throws"} :
          CASE outcome = "found" ->
                 /\ pdfPc' = "cache"
                 /\ UNCHANGED pdfResponse
            [] outcome = "not found" ->
                 /\ pdfPc' = "done"
                 /\ pdfResponse' = ErrorResponse("Property not found")
            [] outcome = "throws" ->
                 /\ pdfPc' = "done"
                 /\ pdfResponse' = ErrorResponse("Failed to generate PDF")
    /\ UNCHANGED <<besidesPdf, pdfData, pdfToday, pdfDate, pdfFiscalYear>>

\* isPdfCached(parcelId, specificFormType, fiscalYear): a cached PDF is
\* returned; otherwise a new one is generated.
CheckCache ==
    /\ pdfPc = "cache"
    /\ pdfCalls' = Append(pdfCalls, "isPdfCached")
    /\ \E cached \in BOOLEAN :
          IF cached
          THEN /\ pdfPc' = "done"
               /\ pdfResponse' = SuccessResponse(pdfFiscalYear[1], TRUE)
          ELSE /\ pdfPc' = IF pdfData.formType = "abatement" THEN "sequence" ELSE "fill"
               /\ UNCHANGED pdfResponse
    /\ UNCHANGED <<besidesPdf, pdfData, pdfToday, pdfDate, pdfFiscalYear>>

\* getNextAbatementSequenceNumber(fiscalYear), for abatements
NextAbatementSequenceNumber ==
    /\ pdfPc = "sequence"
    /\ pdfCalls' = Append(pdfCalls, "getNextAbatementSequenceNumber")
    /\ pdfPc' = "fill"
    /\ UNCHANGED <<besidesPdf, pdfData, pdfToday, pdfDate, pdfFiscalYear, pdfResponse>>

\* fillPdfForm and storePdf: the new PDF is stored and returned.
FillAndStorePdf ==
    /\ pdfPc = "fill"
    /\ pdfCalls' = Append(pdfCalls, "storePdf")
    /\ pdfPc' = "done"
    /\ pdfResponse' = SuccessResponse(pdfFiscalYear[1], FALSE)
    /\ UNCHANGED <<besidesPdf, pdfData, pdfToday, pdfDate, pdfFiscalYear>>

PdfNext ==
    \/ ValidateRequest
    \/ FetchPropertyDetails
    \/ CheckCache
    \/ NextAbatementSequenceNumber
    \/ FillAndStorePdf

PdfSpec == PdfInit /\ [][PdfNext]_vars

(***************************************************************************)
(* Claims about generatePdf.                                               *)
(***************************************************************************)
IsLeapYear(y) == (y % 4 = 0 /\ y % 100 # 0) \/ y % 400 = 0

DaysInMonth(y, m) ==
    IF m = 2 THEN (IF IsLeapYear(y) THEN 29 ELSE 28)
    ELSE IF m \in {4, 6, 9, 11} THEN 30 ELSE 31

\* The string is YYYY-MM-DD and names a day of the calendar.
IsRealCalendarDate(str) ==
    /\ IsDateFormat(str)
    /\ SplitDate(str).month \in 1..12
    /\ SplitDate(str).day \in 1..DaysInMonth(SplitDate(str).year, SplitDate(str).month)

\* The fiscal year of the calendar date (y, m, d): y + 1 from July on.
FiscalYearOfCalendarDate(y, m) == IF m >= 7 THEN y + 1 ELSE y

DateSupplied == pdfData.date.t = "str" /\ pdfData.date.s # <<>>

\* C10 (as claimed): a request whose date string is not a real calendar date
\* in YYYY-MM-DD form is rejected before any property fetch, cache lookup or
\* sequence allocation; and the fiscal year used is the fiscal year of exactly
\* the date supplied.
C10_UnrealDateRejected ==
    /\ (DateSupplied /\ ~IsRealCalendarDate(pdfData.date.s)) =>
          /\ pdfCalls = <<>>
          /\ pdfFiscalYear = <<>>
          /\ pdfPc # "validate" => pdfResponse.kind = "rejected"
    /\ (DateSupplied /\ IsRealCalendarDate(pdfData.date.s) /\ pdfFiscalYear # <<>>) =>
          pdfFiscalYear[1] = FiscalYearOfCalendarDate(SplitDate(pdfData.date.s).year,
                                                      SplitDate(pdfData.date.s).month)

(***************************************************************************)
(* fiscalData.ts: getOwnerDisclaimerDate(date).  The configuration file is *)
(* not part of the sources: the model takes any configuration over         *)
(* ConfigYears.                                                            *)
(***************************************************************************)
\* The disclaimer date configured for the bucket of a fiscal year.
DisclaimerString(y, bucket) == Str(<<"q", bucket, " ">> \o Pad(y, 4))

\* README: defaults.ownerDisclaimerDate
DefaultDisclaimerDate ==
    Str(<<"O", "c", "t", "o", "b", "e", "r", " ", "2", "5", ",", " ", "2", "0", "2", "4">>)

\* What a configured year holds: no ownerDisclaimerDates, both dates, one of
\* them, or a q1 date with an empty q3.
DisclaimerShapes == {"none", "both", "q1", "q3", "emptyQ3"}

DisclaimerYearData(y, shape) ==
    [ownerDisclaimerDates |->
        [defined |-> shape # "none",
         q1 |-> IF shape \in {"both", "q1", "emptyQ3"} THEN DisclaimerString(y, "1") ELSE Undefined,
         q3 |-> IF shape \in {"both", "q3"} THEN DisclaimerString(y, "3")
                ELSE IF shape = "emptyQ3" THEN Str(<<>>) ELSE Undefined]]

DisclaimerConfigs ==
    { [fiscalYears |-> [y \in S |-> DisclaimerYearData(y, shapes[y])],
       defaults |-> [ownerDisclaimerDate |-> DefaultDisclaimerDate]] :
        S \in SUBSET ConfigYears, shapes \in [ConfigYears -> DisclaimerShapes] }

\* The dates looked up: the first and last day of both buckets of each
\* fiscal year of LookupYears.
DisclaimerDates ==
    UNION { { NewDate(y - 1, 6, 1), NewDate(y - 1, 11, 31), NewDate(y, 0, 1), NewDate(y, 5, 30) } :
            y \in LookupYears }

\* yearData.ownerDisclaimerDates[quarter]
DisclaimerOf(yearData, quarter) ==
    IF quarter = "q1" THEN yearData.ownerDisclaimerDates.q1 ELSE yearData.ownerDisclaimerDates.q3

\* A variant of getOwnerDisclaimerDate whose fallback prefers the latest
\* year's q1 date.
getOwnerDisclaimerDateLatestQ1(cfg, date) ==
    LET calendarYear == GetFullYear(date)
        month == GetMonth(date)
        fy == IF month >= 6 THEN calendarYear + 1 ELSE calendarYear
        quarter == IF month >= 6 /\ month <= 11 THEN "q1" ELSE "q3"
        years == DOMAIN cfg.fiscalYears
    IN  IF fy \in years /\ cfg.fiscalYears[fy].ownerDisclaimerDates.defined
              /\ ~Falsy(DisclaimerOf(cfg.fiscalYears[fy], quarter))
        THEN DisclaimerOf(cfg.fiscalYears[fy], quarter)
        ELSE IF years # {} /\ fy > (CHOOSE y \in years : \A z \in years : z <= y)
        THEN LET latestYearData == cfg.fiscalYears[CHOOSE y \in years : \A z \in years : z <= y]
             IN  IF ~latestYearData.ownerDisclaimerDates.defined
                 THEN cfg.defaults.ownerDisclaimerDate
                 ELSE IF ~Falsy(latestYearData.ownerDisclaimerDates.q1)
                 THEN latestYearData.ownerDisclaimerDates.q1
                 ELSE IF ~Falsy(latestYearData.ownerDisclaimerDates.q3)
                 THEN latestYearData.ownerDisclaimerDates.q3
                 ELSE cfg.defaults.ownerDisclaimerDate
        ELSE cfg.defaults.ownerDisclaimerDate

\* fiscalData.ts: getOwnerDisclaimerDate(date), with getLatestFiscalYear().
\* Without configured years Math.max() is -Infinity, every year is greater
\* and fiscalYears[-Infinity] is undefined.
getOwnerDisclaimerDate(cfg, date) ==
    LET calendarYear == GetFullYear(date)
        month == GetMonth(date)
        fy == IF month >= 6 THEN calendarYear + 1 ELSE calendarYear
        isQ1 == month >= 6 /\ month <= 11
        quarter == IF isQ1 THEN "q1" ELSE "q3"
        years == DOMAIN cfg.fiscalYears
    IN  IF fy \in years /\ cfg.fiscalYears[fy].ownerDisclaimerDates.defined
              /\ ~Falsy(DisclaimerOf(cfg.fiscalYears[fy], quarter))
        THEN DisclaimerOf(cfg.fiscalYears[fy], quarter)
        ELSE IF years # {} /\ fy > (CHOOSE y \in years : \A z \in years : z <= y)
        THEN LET latestYearData == cfg.fiscalYears[CHOOSE y \in years : \A z \in years : z <= y]
             IN  IF ~latestYearData.ownerDisclaimerDates.defined
                 THEN cfg.defaults.ownerDisclaimerDate
                 ELSE IF ~Falsy(latestYearData.ownerDisclaimerDates.q3)
                 THEN latestYearData.ownerDisclaimerDates.q3
                 ELSE IF ~Falsy(latestYearData.ownerDisclaimerDates.q1)
                 THEN latestYearData.ownerDisclaimerDates.q1
                 ELSE cfg.defaults.ownerDisclaimerDate
        ELSE cfg.defaults.ownerDisclaimerDate

DisclaimerInit ==
    /\ BesidesDisclaimerIdle
    /\ disclaimerConfig \in DisclaimerConfigs
    /\ disclaimerDate \in DisclaimerDates
    /\ disclaimerResult = <<>>

\* A call getOwnerDisclaimerDate(date)
GetOwnerDisclaimerDate ==
    /\ disclaimerResult = <<>>
    /\ disclaimerResult' = <<getOwnerDisclaimerDate(disclaimerConfig, disclaimerDate)>>
    /\ UNCHANGED <<besidesDisclaimer, disclaimerConfig, disclaimerDate>>

DisclaimerNext == GetOwnerDisclaimerDate

DisclaimerSpec == DisclaimerInit /\ [][DisclaimerNext]_vars

(***************************************************************************)
(* Claims about the owner disclaimer date.                                 *)
(***************************************************************************)
DisclaimerYears == DOMAIN disclaimerConfig.fiscalYears

\* The value the configuration holds for a fiscal year and bucket, if any.
ConfiguredDisclaimer(y, bucket) ==
    IF y \in DisclaimerYears /\ disclaimerConfig.fiscalYears[y].ownerDisclaimerDates.defined
    THEN DisclaimerOf(disclaimerConfig.fiscalYears[y], bucket)
    ELSE Undefined

IsConfigured(y, bucket) == ConfiguredDisclaimer(y, bucket).t = "str" /\ ConfiguredDisclaimer(y, bucket).s # <<>>

\* The fiscal year and bucket of the date, from the windows of its calendar
\* year: January 1 to June 30 is q3 of that year, July 1 to December 31 is q1
\* of the next.
DisclaimerFiscalYear ==
    CHOOSE y \in (2014..2032) \cup ((FirstConfigYear - 2)..(LastConfigYear + 2)) :
        DateLE(NewDate(y - 1, 6, 1), disclaimerDate) /\ DateLT(disclaimerDate, NewDate(y, 6, 1))

DisclaimerBucket ==
    IF DateLT(disclaimerDate, NewDate(DisclaimerFiscalYear, 0, 1)) THEN "q1" ELSE "q3"

\* C22: getOwnerDisclaimerDate(date) is the value configured for the fiscal
\* year and bucket of the date when there is one; otherwise, for a fiscal
\* year above the highest configured year, that year's q3 value, or its q1
\* value when q3 is absent; otherwise the default disclaimer date.
C22_DisclaimerFallback ==
    disclaimerResult # <<>> =>
        LET fy == DisclaimerFiscalYear
            bucket == DisclaimerBucket
        IN  /\ IsConfigured(fy, bucket) => disclaimerResult[1] = ConfiguredDisclaimer(fy, bucket)
            /\ ~IsConfigured(fy, bucket) =>
                  /\ \A latest \in DisclaimerYears :
                        ((\A y \in DisclaimerYears : y <= latest) /\ fy > latest) =>
                            /\ IsConfigured(latest, "q3")
                                  => disclaimerResult[1] = ConfiguredDisclaimer(latest, "q3")
                            /\ (~IsConfigured(latest, "q3") /\ IsConfigured(latest, "q1"))
                                  => disclaimerResult[1] = ConfiguredDisclaimer(latest, "q1")
                            /\ (~IsConfigured(latest, "q3") /\ ~IsConfigured(latest, "q1"))
                                  => disclaimerResult[1] = DefaultDisclaimerDate
                  /\ (\E y \in DisclaimerYears : y >= fy)
                        => disclaimerResult[1] = DefaultDisclaimerDate
                  /\ DisclaimerYears = {} => disclaimerResult[1] = DefaultDisclaimerDate

\* Only FY2026 is configured, without a q3 date, and a date of FY2031 was
\* looked up: the q1 date of FY2026 is returned.
C22_Witness ==
    /\ DisclaimerYears = {2026}
    /\ ~IsConfigured(2026, "q3")
    /\ disclaimerDate = NewDate(2030, 6, 1)
    /\ disclaimerResult = <<DisclaimerString(2026, "1")>>

(***************************************************************************)
(* index.ts: parseAfterDash(value), called on its own.                     *)
(***************************************************************************)
\* The most pieces the value argument is put together from.
MaxPieces == 3

\* The pieces: a short upper-case code, the separator, a lower-case word, a
\* space.
DashPieces == { <<"A", "B">>, <<" ", "-", " ">>, <<"c", "d">>, <<" ">> }

RECURSIVE Concat(_)
Concat(pieces) == IF pieces = <<>> THEN <<>> ELSE Head(pieces) \o Concat(Tail(pieces))

DashValues ==
    {Null, Undefined} \cup
    { Str(Concat(pieces)) : pieces \in UNION { [1..n -> DashPieces] : n \in 0..MaxPieces } }

NotReturned == [returned |-> FALSE, string |-> <<>>]

DashInit ==
    /\ BesidesDashIdle
    /\ dashValue \in DashValues
    /\ dashResult = NotReturned

\* parseAfterDash(value)
ParseAfterDash ==
    /\ dashResult = NotReturned
    /\ dashResult' = [returned |-> TRUE, string |-> parseAfterDash(dashValue)]
    /\ UNCHANGED <<besidesDash, dashValue>>

DashNext == ParseAfterDash

DashSpec == DashInit /\ [][DashNext]_vars

(***************************************************************************)
(* Claims about parseAfterDash.                                            *)
(***************************************************************************)
\* Where the separator " - " begins in the string.
DashHits(str) ==
    { i \in 1..(Len(str) - 2) : str[i] = " " /\ str[i + 1] = "-" /\ str[i + 2] = " " }

\* The last place the separator begins.
LastDash(str) == CHOOSE i \in DashHits(str) : \A j \in DashHits(str) : j <= i

\* C18 (as claimed): for a string with one or more separators ' - ' the
\* result is the trimmed, proper-cased substring after the LAST of them; for
\* a string without separator the whole trimmed string, proper-cased; for
\* null, undefined or a blank string the empty string.
C18_AfterLastDash ==
    dashResult.returned =>
        dashResult.string =
            IF dashValue.t \in {"null", "undefined"} THEN <<>>
            ELSE IF Trim(dashValue.s) = <<>> THEN <<>>
            ELSE IF DashHits(dashValue.s) # {}
            THEN toProperCase(Str(Trim(SubSeq(dashValue.s, LastDash(dashValue.s) + 3,
                                              Len(dashValue.s)))))
            ELSE toProperCase(Str(Trim(dashValue.s)))

\* What the code gives: the substring after the FIRST separator.
AfterFirstDash ==
    (dashResult.returned /\ dashValue.t = "str" /\ Trim(dashValue.s) # <<>>
        /\ DashHits(dashValue.s) # {})
        => LET first == CHOOSE i \in DashHits(dashValue.s) :
                            \A j \in DashHits(dashValue.s) : i <= j
           IN  dashResult.string =
                   toProperCase(Str(Trim(SubSeq(dashValue.s, first + 3, Len(dashValue.s)))))

(***************************************************************************)
(* index.ts: fetchPropertyDetailsByParcelIdHelper(parcelId), the whole     *)
(* aggregation: nine layer queries, each in its own try / catch, and the   *)
(* record composed from what they gave.                                    *)
(***************************************************************************)
\* The most residential rows a parcel has after version selection.
MaxBuildings == 2

Layers ==
    {"geometry", "valueHistory", "owners", "residential", "condo", "outbuildings",
     "sales", "taxes", "realEstate"}

AddressNotAvailable == <<"A", "d", "d", "r", "e", "s", "s", " ", "n", "o", "t", " ", "a", "v", "a", "i", "l", "a", "b", "l", "e">>
PropertyNotFound == <<"P", "r", "o", "p", "e", "r", "t", "y", " ", "n", "o", "t", " ", "f", "o", "u", "n", "d">>
OwnerNotAvailable == <<"O", "w", "n", "e", "r", " ", "n", "o", "t", " ", "a", "v", "a", "i", "l", "a", "b", "l", "e">>

\* The rows of the residential layer: bedrooms is one of the compared
\* fields, living_area is not; the other compared fields are equal in all
\* rows of the model.
ResidentialRows == [bedrooms : {Num(2), Num(3)}, living_area : {Num(900), Num(1200)}]
ResidentialFeatures == UNION { [1..n -> ResidentialRows] : n \in 0..MaxBuildings }

\* condoAttrs.complex: null, blank, an identifier, an identifier after a
\* space.
Complexes ==
    { Null, Str(<<" ", " ">>), Str(<<"A", "B", "1", "-", "2">>), Str(<<" ", "A", "B", "1">>) }

\* taxesData.resex_amt: null, zero, an amount.
ResexAmounts == { Null, Num(0), Num(500) }

\* A row of the taxes layer with the given resex_amt.
TaxesRow(resex) ==
    [total_assessed_value |-> Num(400), net_tax |-> Num(40), total_billed_amt |-> Num(45),
     gross_re_tax |-> Num(50), resex_amt |-> resex, persexempt_total |-> Num(5)]

\* The rows EGIS holds for a parcel, per layer.
Parcel(residential, complex, resex) ==
    [ geometry |-> << [geometry |-> Str(<<"p", "o", "l", "y", "g", "o", "n">>)] >>,
      valueHistory |-> << [fiscal_year |-> Num(2025), assessed_value |-> Num(400)] >>,
      owners |-> << [owner_name |-> Str(<<"D", "O", "E", " ", "J", "A", "N", "E">>)] >>,
      residential |-> residential,
      condo |-> << [complex |-> complex] >>,
      outbuildings |-> << [code |-> Str(<<"G", "A", "R", "A", "G", "E">>), tot_units |-> Num(1)] >>,
      sales |-> << [latest_sales_date |-> Str(<<"2", "0", "2", "0">>)] >>,
      taxes |-> << TaxesRow(resex) >>,
      realEstate |-> << [street_number |-> Str(<<"1">>), street_number_suffix |-> Undefined,
                         street_name |-> Str(<<"M", "A", "I", "N", " ", "S", "T">>), apt_unit |-> Undefined,
                         city |-> Str(<<"=">>), location_zip_code |-> Str(<<"0", "2", "1", "0", "8">>),
                         property_type |-> Str(<<"1", "0", "2">>)] >> ]

\* A valid parcel ID for which no layer has a row.
NoRows ==
    [ geometry |-> <<>>, valueHistory |-> <<>>, owners |-> <<>>, residential |-> <<>>,
      condo |-> <<>>, outbuildings |-> <<>>, sales |-> <<>>, taxes |-> <<>>,
      realEstate |-> <<>> ]

Parcels ==
    {NoRows} \cup
    { Parcel(r, c, x) : r \in ResidentialFeatures, c \in Complexes, x \in ResexAmounts }

\* features[0]?.attributes || {}, and a field of it
Attr(features, field) == IF features = <<>> THEN Undefined ELSE features[1][field]

\* await fetchEGISData(layerUrl, query): the rows, or an error once the
\* retries are spent.
QueryLayer(layers, failed, l) ==
    IF l \in failed THEN [threw |-> TRUE, features |-> <<>>]
    ELSE [threw |-> FALSE, features |-> layers[l]]

\* A variant of Caught that lets the error of the query out.
Uncaught(query) == query

\* try { features = await fetchEGISData(...) } catch (error) { console.log }:
\* the error is logged and features keeps its initial [].
Caught(query) == [threw |-> FALSE, features |-> query.features]

\* index.ts: toCamelCase(str), as a string.
toCamelCase(v) ==
    IF v.t \in {"null", "undefined"} THEN <<>>
    ELSE IF v.s = <<>> \/ Trim(v.s) = <<>> THEN <<>>
    ELSE IF IsUpperToken(v.s) /\ Len(v.s) <= 6 THEN v.s
    ELSE CapitalizeWords(ToLowerCase(v.s))

\* index.ts: constructFullAddress(attrs); fields are the attributes of the
\* first real-estate row, undefined when there is none.
constructFullAddress(field) ==
    LET Part(v) == IF Falsy(v) THEN <<>> ELSE Trim(v.s)
        stNum == Part(field["street_number"])
        stNumSuffix == Part(field["street_number_suffix"])
        stName == IF Falsy(field["street_name"]) THEN <<>>
                  ELSE toProperCase(Str(Trim(field["street_name"].s)))
        unitNum == Part(field["apt_unit"])
        city == IF Falsy(field["city"]) THEN <<>>
                ELSE IF Trim(field["city"].s) = <<"=">> THEN <<"B", "o", "s", "t", "o", "n">>
                ELSE toProperCase(Str(Trim(field["city"].s)))
        zip == Part(field["location_zip_code"])
        fullStreetNumber == IF stNumSuffix # <<>> /\ stNumSuffix # stNum
                            THEN stNum \o <<"-">> \o stNumSuffix ELSE stNum
        withName == IF stName # <<>>
                    THEN fullStreetNumber \o (IF fullStreetNumber # <<>> THEN <<" ">> ELSE <<>>)
                         \o stName
                    ELSE fullStreetNumber
        withUnit == IF unitNum # <<>> THEN withName \o <<" ", "#">> \o unitNum ELSE withName
        withCity == IF city # <<>> THEN withUnit \o <<",", " ">> \o city ELSE withUnit
        address == IF zip # <<>> THEN withCity \o <<",", " ">> \o zip ELSE withCity
    IN  IF address = <<>> THEN AddressNotAvailable ELSE address

\* The fields hasMultipleBuildings compares that the model follows.
ComparedFields == {"bedrooms"}

\* A variant of hasMultipleBuildings that only counts the rows.
hasMultipleBuildingsByCount(features) == Len(features) > 1

\* index.ts: hasMultipleBuildings: more than one row, and some row differs
\* from the one before it in a compared field.
hasMultipleBuildings(features) ==
    /\ Len(features) > 1
    /\ \E i \in 2..Len(features) :
          \E f \in ComparedFields : features[i][f] # features[i - 1][f]

\* index.ts: buildingAttrs: one entry per residential row, numbered from 1.
buildingAttrs(features) ==
    IF hasMultipleBuildings(features)
    THEN [defined |-> TRUE,
          items |-> [i \in 1..Len(features) |->
                       [buildingNumber |-> i, livingArea |-> features[i].living_area]]]
    ELSE [defined |-> FALSE, items |-> <<>>]

IsAlphaNumeric(c) == IsUpper(c) \/ IsLower(c) \/ c \in DigitChars

RECURSIVE LeadingAlphaNumerics(_)
LeadingAlphaNumerics(str) ==
    IF str # <<>> /\ IsAlphaNumeric(Head(str))
    THEN <<Head(str)>> \o LeadingAlphaNumerics(Tail(str))
    ELSE <<>>

\* index.ts: extractMasterParcelId(complexIdentifier): the match of
\* /^[A-Za-z0-9]+/ on the identifier as it is.
extractMasterParcelId(complexIdentifier) ==
    IF Falsy(complexIdentifier) \/ Trim(complexIdentifier.s) = <<>> THEN Undefined
    ELSE IF LeadingAlphaNumerics(complexIdentifier.s) = <<>> THEN Undefined
    ELSE Str(LeadingAlphaNumerics(complexIdentifier.s))

\* !!condoAttrs?.complex?.trim()
isPartOfComplex(complex) == ~Falsy(complex) /\ Trim(complex.s) # <<>>

\* index.ts: layout
layout(residentialPropertyFeatures, complex) ==
    IF Len(residentialPropertyFeatures) > 1 THEN "multiple_buildings"
    ELSE IF isPartOfComplex(complex) THEN "condo_unit_split"
    ELSE "standard"

\* valueHistoryFeatures.forEach: historicalValues[yearId] = assessedValue, a
\* later row of a year replacing an earlier one.
historicalValues(features) ==
    LET Counts(i) == ~Falsy(features[i].fiscal_year) /\ features[i].assessed_value.t # "undefined"
    IN  { <<features[i].fiscal_year.n, features[i].assessed_value>> :
            i \in { j \in DOMAIN features :
                      /\ Counts(j)
                      /\ \A k \in DOMAIN features :
                            (k > j /\ Counts(k)) => features[k].fiscal_year # features[j].fiscal_year } }

\* owners: the default unless the layer gave rows; then their names, the
\* empty ones dropped.
Owners(features) ==
    IF features = <<>> THEN <<OwnerNotAvailable>>
    ELSE LET names == [i \in DOMAIN features |-> toCamelCase(features[i].owner_name)]
         IN  SelectSeq(names, LAMBDA name : name # <<>>)

\* PropertyDetails (constructor): the titles of the attribute groups, the
\* buildings numbered.
Group(title, number) == [title |-> title, number |-> number]

AttributeGroups(buildingAttributes, hasComplexCondoData, outbuildingAttributes) ==
    LET commonSections ==
            (IF outbuildingAttributes # <<>> THEN <<Group("Outbuildings", 0)>> ELSE <<>>)
            \o <<Group("Last Transaction", 0)>>
    IN  IF buildingAttributes.defined
        THEN [i \in DOMAIN buildingAttributes.items |->
                 Group("Building", buildingAttributes.items[i].buildingNumber)]
             \o commonSections
        ELSE IF hasComplexCondoData
        THEN <<Group("Condo Main Attributes", 0), Group("Unit Attributes", 0)>>
             \o commonSections
        ELSE <<Group("General", 0), Group("Rooms", 0), Group("Construction & Condition", 0),
               Group("Utilities", 0)>> \o commonSections

\* The record fetchPropertyDetailsByParcelIdHelper returns for the parcel
\* when the queries of the layers in failed fail, or its throwing.
PropertyDetailsOf(layers, failed) ==
    LET Query(l) == Caught(QueryLayer(layers, failed, l))
        geometricDataFeatures == Query("geometry").features
        valueHistoryFeatures == Query("valueHistory").features
        currentOwnersFeatures == Query("owners").features
        residentialPropertyFeatures == Query("residential").features
        condoAttributesFeatures == Query("condo").features
        outbuildingsFeatures == Query("outbuildings").features
        salesDataFeatures == Query("sales").features
        taxesFeatures == Query("taxes").features
        realEstateFeatures == Query("realEstate").features
        complex == Attr(condoAttributesFeatures, "complex")
        resex == Attr(taxesFeatures, "resex_amt")
        attributes == buildingAttrs(residentialPropertyFeatures)
        complexCondo == layout(residentialPropertyFeatures, complex) = "condo_unit_split"
        outbuildingAttrs ==
            [i \in DOMAIN outbuildingsFeatures |->
                [type |-> toProperCase(Str(parseAfterDash(outbuildingsFeatures[i].code))),
                 size |-> outbuildingsFeatures[i].tot_units]]
    IN  IF \E l \in Layers : Query(l).threw
        THEN [kind |-> "thrown"]
        ELSE [kind |-> "returned",
              geometry |-> IF Len(geometricDataFeatures) > 0
                           THEN geometricDataFeatures[1].geometry ELSE Null,
              hasMultipleBuildings |-> hasMultipleBuildings(residentialPropertyFeatures),
              hasComplexCondoData |-> complexCondo,
              buildingAttributes |-> attributes,
              masterParcelId |-> IF isPartOfComplex(complex)
                                 THEN extractMasterParcelId(complex) ELSE Undefined,
              attributeGroups |-> AttributeGroups(attributes, complexCondo, outbuildingAttrs),
              outbuildingAttributes |-> outbuildingAttrs,
              saleDate |-> OrElse(Attr(salesDataFeatures, "latest_sales_date"), Undefined),
              overview |->
                 [fullAddress |->
                     constructFullAddress([f \in {"street_number", "street_number_suffix",
                                                  "street_name", "apt_unit", "city",
                                                  "location_zip_code"} |->
                                              Attr(realEstateFeatures, f)]),
                  owners |-> Owners(currentOwnersFeatures),
                  assessedValue |-> OrElse(Attr(taxesFeatures, "total_assessed_value"), Num(0)),
                  propertyTypeCode |->
                     OrElse(Attr(realEstateFeatures, "property_type"), NotAvailable),
                  netTax |-> OrElse(Attr(taxesFeatures, "net_tax"), Num(0)),
                  totalBilledAmount |-> OrElse(Attr(taxesFeatures, "total_billed_amt"), Num(0)),
                  residentialExemptionFlag |->
                     (~Falsy(resex) /\ resex.t = "num" /\ resex.n > 0),
                  personalExemptionAmount |->
                     OrElse(Attr(taxesFeatures, "persexempt_total"), Num(0)),
                  residentialExemptionAmount |-> OrElse(resex, Num(0))],
              propertyValue |->
                 [historicPropertyValues |-> historicalValues(valueHistoryFeatures)],
              propertyTaxes |->
                 [propertyGrossTax |-> OrElse(Attr(taxesFeatures, "gross_re_tax"), Num(0)),
                  residentialExemptionAmount |-> OrElse(resex, Num(0)),
                  personalExemptionAmount |->
                     OrElse(Attr(taxesFeatures, "persexempt_total"), Num(0))]]

NotAggregated == [kind |-> "pending"]

AggregateInit ==
    /\ BesidesAggregateIdle
    /\ egisLayers \in Parcels
    /\ failedQueries \in SUBSET Layers
    /\ aggregate = NotAggregated

\* fetchPropertyDetailsByParcelIdHelper(parcelId)
FetchPropertyDetailsByParcelId ==
    /\ aggregate = NotAggregated
    /\ aggregate' = PropertyDetailsOf(egisLayers, failedQueries)
    /\ UNCHANGED <<besidesAggregate, egisLayers, failedQueries>>

AggregateNext == FetchPropertyDetailsByParcelId

AggregateSpec == AggregateInit /\ [][AggregateNext]_vars

\* useOverviewContent.ts: getExemptionStatus(amount, flag), by the message
\* key it shows.
getExemptionStatus(amount, flag, isPrelimPeriod) ==
    IF amount.t = "num" /\ amount.n > 0 THEN "granted"
    ELSE IF isPrelimPeriod /\ flag THEN "amount_to_be_decided"
    ELSE IF isPrelimPeriod /\ ~flag THEN "preliminary_flag_false"
    ELSE "not_granted"

(***************************************************************************)
(* Claims about the aggregation.                                           *)
(***************************************************************************)
Aggregated == aggregate # NotAggregated

\* The record of the same parcel when no query fails.
Unfailed == PropertyDetailsOf(egisLayers, {})

\* None of the layers feeding a section failed.
Succeeded(feeding) == feeding \cap failedQueries = {}

\* C13: whatever subset of the nine layer queries fails, the helper returns
\* a record and does not throw; the section fed by a failed layer holds its
\* defaults (no geometry, empty value history, owners = ['Owner not
\* available'], amounts 0, no outbuildings, no sale, address and property
\* type not available, no building groups, no complex), and every section
\* whose layers all succeeded is what it is when no query fails.
C13_FailedLayersDegrade ==
    Aggregated =>
      LET unfailed == Unfailed
      IN
        /\ aggregate.kind = "returned"
        /\ "geometry" \in failedQueries => aggregate.geometry = Null
        /\ "valueHistory" \in failedQueries =>
              aggregate.propertyValue.historicPropertyValues = {}
        /\ "owners" \in failedQueries => aggregate.overview.owners = <<OwnerNotAvailable>>
        /\ "taxes" \in failedQueries =>
              /\ aggregate.overview.assessedValue = Num(0)
              /\ aggregate.overview.netTax = Num(0)
              /\ aggregate.overview.totalBilledAmount = Num(0)
              /\ aggregate.overview.residentialExemptionAmount = Num(0)
              /\ aggregate.overview.personalExemptionAmount = Num(0)
              /\ ~aggregate.overview.residentialExemptionFlag
              /\ aggregate.propertyTaxes =
                    [propertyGrossTax |-> Num(0), residentialExemptionAmount |-> Num(0),
                     personalExemptionAmount |-> Num(0)]
        /\ "outbuildings" \in failedQueries => aggregate.outbuildingAttributes = <<>>
        /\ "sales" \in failedQueries => aggregate.saleDate = Undefined
        /\ "realEstate" \in failedQueries =>
              /\ aggregate.overview.fullAddress = AddressNotAvailable
              /\ aggregate.overview.propertyTypeCode = NotAvailable
        /\ "residential" \in failedQueries =>
              /\ ~aggregate.hasMultipleBuildings
              /\ ~aggregate.buildingAttributes.defined
        /\ "condo" \in failedQueries =>
              /\ ~aggregate.hasComplexCondoData
              /\ aggregate.masterParcelId = Undefined
        /\ Succeeded({"geometry"}) => aggregate.geometry = unfailed.geometry
        /\ Succeeded({"valueHistory"}) => aggregate.propertyValue = unfailed.propertyValue
        /\ Succeeded({"owners"}) => aggregate.overview.owners = unfailed.overview.owners
        /\ Succeeded({"taxes"}) =>
              /\ aggregate.propertyTaxes = unfailed.propertyTaxes
              /\ aggregate.overview.assessedValue = unfailed.overview.assessedValue
              /\ aggregate.overview.netTax = unfailed.overview.netTax
              /\ aggregate.overview.totalBilledAmount = unfailed.overview.totalBilledAmount
              /\ aggregate.overview.residentialExemptionAmount =
                    unfailed.overview.residentialExemptionAmount
              /\ aggregate.overview.residentialExemptionFlag =
                    unfailed.overview.residentialExemptionFlag
              /\ aggregate.overview.personalExemptionAmount =
                    unfailed.overview.personalExemptionAmount
        /\ Succeeded({"outbuildings"}) =>
              aggregate.outbuildingAttributes = unfailed.outbuildingAttributes
        /\ Succeeded({"sales"}) => aggregate.saleDate = unfailed.saleDate
        /\ Succeeded({"realEstate"}) =>
              /\ aggregate.overview.fullAddress = unfailed.overview.fullAddress
              /\ aggregate.overview.propertyTypeCode = unfailed.overview.propertyTypeCode
        /\ Succeeded({"residential"}) =>
              /\ aggregate.hasMultipleBuildings = unfailed.hasMultipleBuildings
              /\ aggregate.buildingAttributes = unfailed.buildingAttributes
        /\ Succeeded({"condo"}) => aggregate.masterParcelId = unfailed.masterParcelId
        /\ Succeeded({"residential", "condo"}) =>
              aggregate.hasComplexCondoData = unfailed.hasComplexCondoData
        /\ Succeeded({"residential", "condo", "outbuildings"}) =>
              aggregate.attributeGroups = unfailed.attributeGroups

\* The geometry, taxes and residential queries of a parcel with rows in
\* every layer failed: a record came back with their defaults and with the
\* owners and the address of the layers that answered.
C13_Witness ==
    /\ Aggregated
    /\ failedQueries = {"geometry", "taxes", "residential"}
    /\ Len(egisLayers.residential) = 2
    /\ aggregate.kind = "returned"
    /\ aggregate.geometry = Null
    /\ aggregate.overview.netTax = Num(0)
    /\ aggregate.overview.owners # <<OwnerNotAvailable>>
    /\ aggregate.overview.fullAddress # AddressNotAvailable

\* The rows the residential query gave the helper.
ResidentialRowsSeen == IF "residential" \in failedQueries THEN <<>> ELSE egisLayers.residential

\* The condo complex field the helper saw.
ComplexSeen ==
    IF "condo" \in failedQueries THEN Undefined ELSE Attr(egisLayers.condo, "complex")

\* C14 (as claimed): whenever the property is not classified as
\* multi-building and its condo row has a complex field that is non-empty
\* after trimming, the record has hasComplexCondoData true, and its master
\* parcel ID is the leading run of letters and digits of the complex field
\* (none when the field does not start with one).
C14_ComplexUnitMarked ==
    (/\ Aggregated
     /\ aggregate.kind = "returned"
     /\ ~aggregate.hasMultipleBuildings
     /\ ComplexSeen.t = "str"
     /\ Trim(ComplexSeen.s) # <<>>)
        => /\ aggregate.hasComplexCondoData
           /\ aggregate.masterParcelId =
                 (IF LeadingAlphaNumerics(ComplexSeen.s) = <<>> THEN Undefined
                  ELSE Str(LeadingAlphaNumerics(ComplexSeen.s)))

\* Row i of the sequence differs from the row before it in a compared field.
DiffersFromPrevious(rows, i) == \E f \in ComparedFields : rows[i][f] # rows[i - 1][f]

\* The building groups among the attribute groups of the record.
BuildingGroups == SelectSeq(aggregate.attributeGroups, LAMBDA g : g.title = "Building")

\* C15: the property is classified as multi-building exactly when the
\* residential layer gave more than one row and some row differs from the
\* one before it in a compared field; then the record carries one building
\* attribute group per residential row, in row order, and otherwise none.
C15_MultiBuildingGroups ==
    (Aggregated /\ aggregate.kind = "returned") =>
        LET rows == ResidentialRowsSeen
            multi == Len(rows) > 1 /\ \E i \in 2..Len(rows) : DiffersFromPrevious(rows, i)
        IN  /\ aggregate.hasMultipleBuildings = multi
            /\ aggregate.buildingAttributes.defined = multi
            /\ multi =>
                  /\ Len(aggregate.buildingAttributes.items) = Len(rows)
                  /\ \A i \in DOMAIN rows :
                        /\ aggregate.buildingAttributes.items[i].buildingNumber = i
                        /\ aggregate.buildingAttributes.items[i].livingArea =
                              rows[i].living_area
                  /\ Len(BuildingGroups) = Len(rows)
                  /\ \A i \in DOMAIN rows : BuildingGroups[i].number = i
            /\ ~multi =>
                  /\ aggregate.buildingAttributes.items = <<>>
                  /\ BuildingGroups = <<>>

\* Two residential rows that differ only in bedrooms gave two building
\* groups.
C15_Witness ==
    /\ Aggregated
    /\ failedQueries = {}
    /\ Len(egisLayers.residential) = 2
    /\ egisLayers.residential[1].bedrooms # egisLayers.residential[2].bedrooms
    /\ egisLayers.residential[1].living_area = egisLayers.residential[2].living_area
    /\ aggregate.hasMultipleBuildings
    /\ Len(BuildingGroups) = 2

\* C17 (as claimed): the aggregator can produce a record whose
\* residentialExemptionFlag is true while its residentialExemptionAmount is
\* 0, for which the overview shows 'amount to be decided' in the preliminary
\* period: for the parcel aggregated, some resex_amt of its taxes row gives
\* such a record.
C17_FlagWithoutAmountProduced ==
    Aggregated =>
        \E resex \in ResexAmounts :
            LET record == PropertyDetailsOf([egisLayers EXCEPT !.taxes = <<TaxesRow(resex)>>], {})
            IN  /\ record.overview.residentialExemptionFlag
                /\ record.overview.residentialExemptionAmount = Num(0)
                /\ getExemptionStatus(record.overview.residentialExemptionAmount,
                                      record.overview.residentialExemptionFlag, TRUE)
                      = "amount_to_be_decided"

\* What the code gives instead: a true flag comes with an amount above 0,
\* and the overview shows 'granted'.
ResidentialFlagFollowsAmount ==
    (Aggregated /\ aggregate.kind = "returned" /\ aggregate.overview.residentialExemptionFlag)
        => /\ aggregate.overview.residentialExemptionAmount.n > 0
           /\ getExemptionStatus(aggregate.overview.residentialExemptionAmount,
                                 aggregate.overview.residentialExemptionFlag, TRUE) = "granted"

(***************************************************************************)
(* index.ts: fetchPropertySummariesByParcelIdsHelper(parcelIds,            *)
(* fiscalYearAndQuarter), called for two parcels.  Each layer holds, for   *)
(* each parcel, any of the rows of two periods; the real estate rows carry *)
(* no quarter field, the taxes rows a bill_year.                           *)
(***************************************************************************)
SummaryParcelIds == <<"1", "2">>

SummaryAddressRow(p, y) ==
    [parcel_id |-> p, fiscal_year |-> Num(y), bill_year |-> Undefined, quarter |-> Undefined,
     street_number |-> Str(<<p>>), street_number_suffix |-> Undefined,
     street_name |-> Str(<<"E", "L", "M", " ", "S", "T">>), apt_unit |-> Undefined,
     city |-> Undefined, location_zip_code |-> Str(Pad(y, 5))]

SummaryOwnerRow(p, y, q) ==
    [parcel_id |-> p, fiscal_year |-> Num(y), bill_year |-> Undefined, quarter |-> Str(<<q>>),
     owner_name |-> Str(<<"O", "W", "N", "E", "R", " ", p>> \o Pad(y, 4) \o <<q>>)]

SummaryTaxesRow(p, y) ==
    [parcel_id |-> p, fiscal_year |-> Undefined, bill_year |-> Num(y), quarter |-> Undefined,
     total_assessed_value |-> Num(y * 100 + DigitValue(p))]

\* The rows a layer can hold, in the order the server returns them.
SummaryAddressRows ==
    <<SummaryAddressRow("1", 2024), SummaryAddressRow("1", 2025),
      SummaryAddressRow("2", 2024), SummaryAddressRow("2", 2025)>>
SummaryOwnerRows ==
    <<SummaryOwnerRow("1", 2024, "3"), SummaryOwnerRow("1", 2025, "1"),
      SummaryOwnerRow("2", 2024, "3"), SummaryOwnerRow("2", 2025, "1")>>
SummaryTaxesRows ==
    <<SummaryTaxesRow("1", 2024), SummaryTaxesRow("1", 2025),
      SummaryTaxesRow("2", 2024), SummaryTaxesRow("2", 2025)>>

\* The rows of all that the layer holds.
Held(all, positions) == SelectSeq([i \in DOMAIN all |-> [at |-> i, row |-> all[i]]],
                                  LAMBDA e : e.at \in positions)

RowsOf(entries) == [i \in DOMAIN entries |-> entries[i].row]

NoPeriod == [given |-> FALSE, year |-> 0, quarter |-> "0"]
SummaryPeriods == {NoPeriod, [given |-> TRUE, year |-> 2024, quarter |-> "3"]}

NoSummaries == [returned |-> FALSE, list |-> <<>>]

SummariesInit ==
    /\ BesidesSummariesIdle
    /\ \E a \in SUBSET (1..4), o \in SUBSET (1..4), t \in SUBSET (1..4) :
          summaryLayers = [address |-> RowsOf(Held(SummaryAddressRows, a)),
                           owners |-> RowsOf(Held(SummaryOwnerRows, o)),
                           taxes |-> RowsOf(Held(SummaryTaxesRows, t))]
    /\ summaryPeriod \in SummaryPeriods
    /\ summaryFails \in BOOLEAN
    /\ summaries = NoSummaries

\* new Map(features.map(f => [f.attributes.parcel_id, ...])).get(parcelId):
\* the last row of the parcel.
MapGet(rows, p) ==
    LET at == { i \in DOMAIN rows : rows[i].parcel_id = p }
    IN  IF at = {} THEN [has |-> FALSE, attrs |-> <<>>]
        ELSE [has |-> TRUE, attrs |-> rows[CHOOSE i \in at : \A j \in at : j <= i]]

\* index.ts: the summaries for the rows the three queries return.
SummariesOf(layers, period) ==
    LET addressFeatures == filterForHighestFiscalYearAndQuarter(layers.address, NoOptions)
        ownersFeatures ==
            IF period.given
            THEN SelectSeq(layers.owners, LAMBDA f : f.fiscal_year = Num(period.year)
                                                      /\ f.quarter = Str(<<period.quarter>>))
            ELSE filterForHighestFiscalYearAndQuarter(layers.owners, NoOptions)
        taxesFeatures ==
            IF period.given
            THEN SelectSeq(layers.taxes, LAMBDA f : f.bill_year = Num(period.year))
            ELSE filterForHighestFiscalYearAndQuarter(layers.taxes, BillYearOptions)
    IN  [i \in DOMAIN SummaryParcelIds |->
            LET parcelId == SummaryParcelIds[i]
                address == MapGet(addressFeatures, parcelId)
                owner == MapGet(ownersFeatures, parcelId)
                value == MapGet(taxesFeatures, parcelId)
            IN  [parcelId |-> parcelId,
                 fullAddress |-> IF address.has THEN constructFullAddress(address.attrs)
                                 ELSE AddressNotAvailable,
                 owner |-> IF owner.has THEN toCamelCase(owner.attrs.owner_name) ELSE <<>>,
                 assessedValue |-> IF value.has
                                   THEN OrElse(value.attrs.total_assessed_value, Num(0))
                                   ELSE Num(0)]]

\* fetchPropertySummariesByParcelIdsHelper(parcelIds, fiscalYearAndQuarter):
\* the three queries, the version filters and the combination by parcel;
\* [] when a query throws.
FetchPropertySummariesByParcelIds ==
    /\ ~summaries.returned
    /\ summaries' = [returned |-> TRUE,
                     list |-> IF summaryFails THEN <<>>
                              ELSE SummariesOf(summaryLayers, summaryPeriod)]
    /\ UNCHANGED <<besidesSummaries, summaryLayers, summaryPeriod, summaryFails>>

SummariesNext == FetchPropertySummariesByParcelIds

SummariesSpec == SummariesInit /\ [][SummariesNext]_vars

(***************************************************************************)
(* Claims about the summaries.                                             *)
(***************************************************************************)
\* The rows of a parcel in a layer.
OwnRows(rows, p) == { rows[i] : i \in { j \in DOMAIN rows : rows[j].parcel_id = p } }

\* The year and quarter of a row as numbers, 0 when missing.
PeriodOf(row) ==
    [year |-> IF row.fiscal_year.t = "num" THEN row.fiscal_year.n
              ELSE IF row.bill_year.t = "num" THEN row.bill_year.n ELSE 0,
     quarter |-> IF row.quarter.t = "str" THEN DigitsValue(row.quarter.s) ELSE 0]

PeriodLE(a, b) == a.year < b.year \/ (a.year = b.year /\ a.quarter <= b.quarter)

\* The latest of the rows of a parcel.
OwnLatest(rows, p) ==
    CHOOSE r \in OwnRows(rows, p) : \A o \in OwnRows(rows, p) : PeriodLE(PeriodOf(o), PeriodOf(r))

SummariesReturned == summaries.returned /\ ~summaryFails /\ ~summaryPeriod.given

\* C28 (as claimed): in a call without a period, every requested parcel with
\* rows in a layer gets that layer's summary field (address, owner, assessed
\* value) from its own latest rows in the layer.
C28_OwnLatestRows ==
    SummariesReturned =>
        \A i \in DOMAIN SummaryParcelIds :
            LET p == SummaryParcelIds[i]
                summary == summaries.list[i]
            IN  /\ summary.parcelId = p
                /\ OwnRows(summaryLayers.owners, p) # {} =>
                      summary.owner = toCamelCase(OwnLatest(summaryLayers.owners, p).owner_name)
                /\ OwnRows(summaryLayers.taxes, p) # {} =>
                      summary.assessedValue =
                          OwnLatest(summaryLayers.taxes, p).total_assessed_value
                /\ OwnRows(summaryLayers.address, p) # {} =>
                      summary.fullAddress =
                          constructFullAddress(OwnLatest(summaryLayers.address, p))

\* The latest period among the rows of all requested parcels.
IsLatestOfAll(rows, row) == \A i \in DOMAIN rows : PeriodLE(PeriodOf(rows[i]), PeriodOf(row))

\* What the code gives: owner and assessed value come from the parcel's own
\* latest rows when these are of the latest period of all requested parcels,
\* and are empty and 0 when another parcel has later rows; the address is
\* never available, as the real estate rows have no quarter.
OnlyLatestOfAllSummarised ==
    SummariesReturned =>
        \A i \in DOMAIN SummaryParcelIds :
            LET p == SummaryParcelIds[i]
                summary == summaries.list[i]
            IN  /\ OwnRows(summaryLayers.owners, p) # {} =>
                      summary.owner =
                          IF IsLatestOfAll(summaryLayers.owners, OwnLatest(summaryLayers.owners, p))
                          THEN toCamelCase(OwnLatest(summaryLayers.owners, p).owner_name)
                          ELSE <<>>
                /\ OwnRows(summaryLayers.taxes, p) # {} =>
                      summary.assessedValue =
                          IF IsLatestOfAll(summaryLayers.taxes, OwnLatest(summaryLayers.taxes, p))
                          THEN OwnLatest(summaryLayers.taxes, p).total_assessed_value
                          ELSE Num(0)
                /\ summary.fullAddress = AddressNotAvailable

(***************************************************************************)
(* useSearchResults: performSearch(query) called by the component and by   *)
(* its own rate-limit timer, with the summaries fetches it awaits settling *)
(* in any order.  Time is counted in steps of ClockStep milliseconds.      *)
(***************************************************************************)
minSearchInterval == 200
ClockStep == 100
\* Date.now() when the hook is mounted.
MountedAt == 1000
\* The performSearch calls the component makes, and the clock steps followed.
MaxSearchCalls == 3
MaxClockSteps == 3

\* A blank query, two queries that match parcels and one that matches none.
BlankQuery == " "
SearchQueries == {BlankQuery, "a", "b", "zz"}

\* search(query) of the parcel pairings context: whether anything matches.
FuzzyMatches(query) == query \in {"a", "b"}

NullResults == [null |-> TRUE, query |-> "", fetch |-> 0]
\* { results: [] }
EmptyResults(query) == [null |-> FALSE, query |-> query, fetch |-> 0]
\* The summaries a fetch resolved with, in fuzzy search order.
SummariesFrom(query, fetch) == [null |-> FALSE, query |-> query, fetch |-> fetch]

NoTimer == [armed |-> FALSE, query |-> "", at |-> 0]

SearchInit ==
    /\ BesidesSearchIdle
    /\ searchResults = NullResults
    /\ isLoading = FALSE
    /\ searchError = FALSE
    /\ abortControllers = <<>>
    /\ abortControllerRef = 0
    /\ lastSearchTimeRef = 0
    /\ searchTimeoutRef = NoTimer
    /\ searchClock = MountedAt
    /\ summaryFetches = <<>>
    /\ searchLog = <<>>

\* abortControllerRef.current?.signal.aborted
RefAborted(controllers, ref) == ref # 0 /\ controllers[ref]

\* abortControllerRef.current.abort(), when there is a controller
AbortCurrent(controllers, ref) ==
    IF ref = 0 THEN controllers ELSE [controllers EXCEPT ![ref] = TRUE]

\* A variant of RefAborted that reads the signal of the search's own
\* controller.
OwnAborted(fetch) == abortControllers[summaryFetches[fetch].controller]

\* What a search reads after its await: the signal of whatever controller
\* abortControllerRef holds by then.
CurrentAborted(fetch) == RefAborted(abortControllers, abortControllerRef)

\* performSearch(query), up to its return or its await.
PerformSearch(query, by) ==
    IF query = BlankQuery
    THEN /\ searchResults' = NullResults
         /\ searchError' = FALSE
         /\ UNCHANGED <<isLoading, abortControllers, abortControllerRef, lastSearchTimeRef,
                        summaryFetches>>
         /\ searchTimeoutRef' = IF by = "timer" THEN NoTimer ELSE searchTimeoutRef
    ELSE LET aborted == AbortCurrent(abortControllers, abortControllerRef)
             timeSinceLastSearch == searchClock - lastSearchTimeRef
         IN  IF timeSinceLastSearch < minSearchInterval
             THEN /\ abortControllers' = aborted
                  /\ searchTimeoutRef' =
                        [armed |-> TRUE, query |-> query,
                         at |-> searchClock + (minSearchInterval - timeSinceLastSearch)]
                  /\ UNCHANGED <<searchResults, isLoading, searchError, abortControllerRef,
                                 lastSearchTimeRef, summaryFetches>>
             ELSE /\ searchError' = FALSE
                  /\ lastSearchTimeRef' = searchClock
                  /\ abortControllers' = Append(aborted, FALSE)
                  /\ abortControllerRef' = Len(abortControllers) + 1
                  /\ searchTimeoutRef' = IF by = "timer" THEN NoTimer ELSE searchTimeoutRef
                  /\ IF FuzzyMatches(query)
                     THEN /\ isLoading' = TRUE
                          /\ summaryFetches' =
                                Append(summaryFetches,
                                       [query |-> query, controller |-> Len(abortControllers) + 1,
                                        by |-> by, at |-> searchClock, state |-> "pending",
                                        pendingAtStart |->
                                            { f \in DOMAIN summaryFetches :
                                                summaryFetches[f].state = "pending" }])
                          /\ UNCHANGED searchResults
                     ELSE /\ searchResults' = EmptyResults(query)
                          /\ isLoading' = FALSE
                          /\ UNCHANGED summaryFetches

\* The component calls performSearch(query).
CallPerformSearch ==
    \E query \in SearchQueries :
        /\ Len(searchLog) < MaxSearchCalls
        /\ PerformSearch(query, "call")
        /\ searchLog' = Append(searchLog, [query |-> query, at |-> searchClock])
        /\ UNCHANGED <<besidesSearch, searchClock>>

\* The rate-limit timer fires: performSearch(query) is called again.
TimerFires ==
    /\ searchTimeoutRef.armed
    /\ searchClock >= searchTimeoutRef.at
    /\ PerformSearch(searchTimeoutRef.query, "timer")
    /\ UNCHANGED <<besidesSearch, searchClock, searchLog>>

\* await fetchPropertySummariesByParcelIds(parcelIds) resolves: unless the
\* controller abortControllerRef holds is aborted, the summaries are sorted
\* and set, and isLoading is cleared.
FetchResolves ==
    \E fetch \in DOMAIN summaryFetches :
        /\ summaryFetches[fetch].state = "pending"
        /\ summaryFetches' = [summaryFetches EXCEPT ![fetch].state = "resolved"]
        /\ IF CurrentAborted(fetch)
           THEN UNCHANGED <<searchResults, isLoading>>
           ELSE /\ searchResults' = SummariesFrom(summaryFetches[fetch].query, fetch)
                /\ isLoading' = FALSE
        /\ UNCHANGED <<besidesSearch, searchError, abortControllers, abortControllerRef,
                       lastSearchTimeRef, searchTimeoutRef, searchClock, searchLog>>

\* await fetchPropertySummariesByParcelIds(parcelIds) rejects: unless the
\* controller abortControllerRef holds is aborted, the error is set and the
\* results cleared.
FetchRejects ==
    \E fetch \in DOMAIN summaryFetches :
        /\ summaryFetches[fetch].state = "pending"
        /\ summaryFetches' = [summaryFetches EXCEPT ![fetch].state = "rejected"]
        /\ IF CurrentAborted(fetch)
           THEN UNCHANGED <<searchResults, isLoading, searchError>>
           ELSE /\ searchResults' = NullResults
                /\ searchError' = TRUE
                /\ isLoading' = FALSE
        /\ UNCHANGED <<besidesSearch, abortControllers, abortControllerRef,
                       lastSearchTimeRef, searchTimeoutRef, searchClock, searchLog>>

\* Time passes; a timer that is due fires before more time passes.
ClockAdvances ==
    /\ searchClock < MountedAt + MaxClockSteps * ClockStep
    /\ ~(searchTimeoutRef.armed /\ searchClock >= searchTimeoutRef.at)
    /\ searchClock' = searchClock + ClockStep
    /\ UNCHANGED <<besidesSearch, searchResults, isLoading, searchError, abortControllers,
                   abortControllerRef, lastSearchTimeRef, searchTimeoutRef, summaryFetches,
                   searchLog>>

SearchNext ==
    \/ CallPerformSearch
    \/ TimerFires
    \/ FetchResolves
    \/ FetchRejects
    \/ ClockAdvances

SearchSpec == SearchInit /\ [][SearchNext]_vars

(***************************************************************************)
(* Claims about useSearchResults.                                          *)
(***************************************************************************)
Settled(fetch) == summaryFetches[fetch].state # "pending"

\* The component searched for one query and then, at least 200 ms later and
\* with the first fetch still pending, for another; both searches fetched
\* summaries and nothing else was asked for.
SupersededSearch ==
    /\ Len(searchLog) = 2
    /\ Len(summaryFetches) = 2
    /\ summaryFetches[1].by = "call"
    /\ summaryFetches[2].by = "call"
    /\ summaryFetches[2].pendingAtStart = {1}
    /\ summaryFetches[2].at - summaryFetches[1].at >= minSearchInterval
    /\ summaryFetches[1].query # summaryFetches[2].query

\* C24 (as claimed): once the fetches of a superseded search and of the
\* search that superseded it have both settled, searchResults holds the
\* results of the later search, whichever fetch settled last.
C24_LatestSearchWins ==
    (SupersededSearch /\ Settled(1) /\ Settled(2) /\ summaryFetches[2].state = "resolved")
        => searchResults = SummariesFrom(summaryFetches[2].query, 2)

\* C29 (as claimed): after performSearch was called with a blank query, and
\* until the component calls it again, searchResults is null: no fetch that
\* was in flight and no timer that was pending sets it.
C29_BlankQueryClears ==
    (searchLog # <<>> /\ searchLog[Len(searchLog)].query = BlankQuery)
        => searchResults = NullResults

(***************************************************************************)
(* The PDF forms service: generatePdf and downloadPdf calls running        *)
(* together against the PDF cache bucket (StorageClient.ts) and the        *)
(* abatement_sequences collection (SequenceClient.ts).  The calls are for  *)
(* one parcel with valid parameters; a cache key is the fiscal year and    *)
(* the specific form type of the file name                                 *)
(* generated-pdfs/{fiscalYear}/{parcelId}/{formType}.pdf.                  *)
(***************************************************************************)
initialCounter == 10001

CallIds == 1..MaxCalls
FormYears == {2026, 2027}
\* The form types of the calls followed: personal goes the way of residential.
CallFormTypes == {"residential", "abatement"}

\* determineFormType(propertyTypeCode, formType): an abatement is a short or a
\* long form, by the property type.
SpecificFormTypes(formType) ==
    IF formType = "abatement" THEN {"abatement_short", "abatement_long"} ELSE {formType}

CacheKeys ==
    [fiscalYear : FormYears, formType : UNION { SpecificFormTypes(f) : f \in CallFormTypes }]

CacheKey(call) == [fiscalYear |-> call.fiscalYear, formType |-> call.specificFormType]

\* A variant of isPdfCached whose prefix leaves the fiscal year out.
isPdfCachedAnyYear(bucket, key) ==
    \E k \in CacheKeys : k.formType = key.formType /\ bucket[k] # <<>>

\* StorageClient.ts: isPdfCached(parcelId, formType, fiscalYear): some file has
\* the prefix generated-pdfs/{fiscalYear}/{parcelId}/{formType}.  No specific
\* form type is a prefix of another.
isPdfCached(bucket, key) == bucket[key] # <<>>

NewCall ==
    [handler |-> "none", formType |-> "none", fiscalYear |-> 0,
     specificFormType |-> "none", pc |-> "new", storedAtStart |-> {},
     effects |-> {}, read |-> <<>>, sequenceNumber |-> 0,
     response |-> [kind |-> "pending"]]

\* The rows of the parcel asked for: a row in every layer, or no row in any.
FormParcel(rows) ==
    IF rows = "some" THEN Parcel(<<[bedrooms |-> Num(2), living_area |-> Num(900)]>>, Null, Null)
    ELSE NoRows

\* No call yet, an empty bucket and an empty abatement_sequences collection.
FormsStart ==
    /\ BesidesFormsIdle
    /\ pdfCacheBucket = [k \in CacheKeys |-> <<>>]
    /\ abatementSequences = [y \in FormYears |-> <<>>]
    /\ currentFiscalYear = 2026
    /\ calls = [c \in CallIds |-> NewCall]
    /\ sequenceLog = [y \in FormYears |-> <<>>]

FormsInit == FormsStart /\ egisParcel = "some"

\* The calls are for a valid parcel ID for which no layer has a row.
NoRowsInit == FormsStart /\ egisParcel = "none"

\* The responses of the two handlers.
CallableSuccess(fy, cached, pdf) ==
    [kind |-> "success", fiscalYear |-> fy, cached |-> cached, pdf |-> pdf]
HttpError(status, message) == [kind |-> "http", status |-> status, message |-> message]
HttpPdf(pdf) == [kind |-> "http", status |-> 200, pdf |-> pdf]

\* The error a handler answers with: generatePdf an error response,
\* downloadPdf an HTTP status.
ErrorOf(handler, status, callableMessage, httpMessage) ==
    IF handler = "generatePdf" THEN ErrorResponse(callableMessage)
    ELSE HttpError(status, httpMessage)

\* Calls are numbered in the order they begin.
Begin(c, handler, formType, fy) ==
    /\ calls[c].pc = "new"
    /\ \A earlier \in CallIds : earlier < c => calls[earlier].pc # "new"
    /\ calls' = [calls EXCEPT ![c] =
          [@ EXCEPT !.handler = handler, !.formType = formType, !.fiscalYear = fy,
                    !.pc = "fetch",
                    !.storedAtStart = { k \in CacheKeys : pdfCacheBucket[k] # <<>> }]]
    /\ UNCHANGED <<besidesForms, egisParcel, pdfCacheBucket, abatementSequences, currentFiscalYear,
                   sequenceLog>>

\* generatePdf is called: the fiscal year is that of data.date, or of today.
BeginGeneratePdf ==
    \E c \in CallIds, formType \in CallFormTypes, fy \in FormYears :
        Begin(c, "generatePdf", formType, fy)

\* downloadPdf is called: the fiscal year is that of today.
BeginDownloadPdf ==
    \E c \in CallIds, formType \in CallFormTypes :
        Begin(c, "downloadPdf", formType, currentFiscalYear)

\* July 1 passes.
NewFiscalYear ==
    /\ currentFiscalYear + 1 \in FormYears
    /\ currentFiscalYear' = currentFiscalYear + 1
    /\ UNCHANGED <<besidesForms, egisParcel, pdfCacheBucket, abatementSequences, calls, sequenceLog>>

\* fetchPropertyDetailsByParcelIdHelper(parcelId), the check of fullAddress
\* against "Property not found", and determineFormType.
CallFetchPropertyDetails ==
    \E c \in CallIds :
        /\ calls[c].pc = "fetch"
        /\ LET details == PropertyDetailsOf(FormParcel(egisParcel), {})
               fetched == [calls[c] EXCEPT
                             !.effects = @ \cup {"fetchPropertyDetailsByParcelIdHelper"}]
           IN  IF details.overview.fullAddress = PropertyNotFound
               THEN calls' = [calls EXCEPT ![c] =
                       [fetched EXCEPT !.pc = "done",
                                       !.response = ErrorOf(calls[c].handler, 404,
                                                            "Property not found",
                                                            "Property not found")]]
               ELSE \E specific \in SpecificFormTypes(calls[c].formType) :
                       calls' = [calls EXCEPT ![c] =
                          [fetched EXCEPT !.specificFormType = specific, !.pc = "cache"]]
        /\ UNCHANGED <<besidesForms, egisParcel, pdfCacheBucket, abatementSequences,
                       currentFiscalYear, sequenceLog>>

\* const cached = await isPdfCached(parcelId, specificFormType, fiscalYear)
CallIsPdfCached ==
    \E c \in CallIds :
        /\ calls[c].pc = "cache"
        /\ calls' = [calls EXCEPT ![c] =
              [@ EXCEPT !.effects = @ \cup {"isPdfCached"},
                        !.pc = IF isPdfCached(pdfCacheBucket, CacheKey(calls[c])) THEN "cached"
                               ELSE IF calls[c].formType = "abatement" THEN "sequence"
                               ELSE "fill"]]
        /\ UNCHANGED <<besidesForms, egisParcel, pdfCacheBucket, abatementSequences, currentFiscalYear,
                       sequenceLog>>

\* The cached branch: generatePdf signs the URLs of the file (getPdfUrl,
\* getPdfDownloadUrl), downloadPdf reads it (getPdfBuffer), which throws
\* when there is no such file.
ReturnCachedPdf ==
    \E c \in CallIds :
        /\ calls[c].pc = "cached"
        /\ LET file == pdfCacheBucket[CacheKey(calls[c])]
           IN  calls' = [calls EXCEPT ![c] =
                 [@ EXCEPT !.pc = "done",
                           !.response =
                              IF calls[c].handler = "generatePdf"
                              THEN CallableSuccess(calls[c].fiscalYear, TRUE, file)
                              ELSE IF file = <<>>
                              THEN HttpError(500, "Failed to generate or download PDF")
                              ELSE HttpPdf(file)]]
        /\ UNCHANGED <<besidesForms, egisParcel, pdfCacheBucket, abatementSequences, currentFiscalYear,
                       sequenceLog>>

\* A variant of CommitAllowed without isolation: the write goes through
\* whatever happened to the document since it was read.
CommitAlways(current, read) == TRUE

\* db.runTransaction: the transaction commits when the document it read has
\* not been written since; otherwise its function is run again.
CommitAllowed(current, read) == current = read

\* currentCounter: 10001 without a document, else data?.counter || 10001
CurrentCounter(doc) ==
    IF doc = <<>> THEN initialCounter
    ELSE IF doc[1].counter = 0 THEN initialCounter ELSE doc[1].counter

\* getNextAbatementSequenceNumber(fiscalYear): transaction.get(sequenceDocRef)
TransactionGet ==
    \E c \in CallIds :
        /\ calls[c].pc = "sequence"
        /\ calls' = [calls EXCEPT ![c] =
              [@ EXCEPT !.effects = @ \cup {"getNextAbatementSequenceNumber"},
                        !.read = <<abatementSequences[calls[c].fiscalYear]>>,
                        !.pc = "commit"]]
        /\ UNCHANGED <<besidesForms, egisParcel, pdfCacheBucket, abatementSequences, currentFiscalYear,
                       sequenceLog>>

\* getNextAbatementSequenceNumber(fiscalYear): the set / update of the
\* counter is committed and currentCounter returned, or the transaction is
\* run again.
TransactionCommit ==
    \E c \in CallIds :
        /\ calls[c].pc = "commit"
        /\ LET y == calls[c].fiscalYear
               currentCounter == CurrentCounter(calls[c].read[1])
           IN  IF CommitAllowed(abatementSequences[y], calls[c].read[1])
               THEN /\ abatementSequences' =
                         [abatementSequences EXCEPT ![y] = <<[counter |-> currentCounter + 1]>>]
                    /\ sequenceLog' = [sequenceLog EXCEPT ![y] = Append(@, currentCounter)]
                    /\ calls' = [calls EXCEPT ![c] =
                          [@ EXCEPT !.sequenceNumber = currentCounter, !.pc = "fill"]]
               ELSE /\ calls' = [calls EXCEPT ![c] = [@ EXCEPT !.read = <<>>, !.pc = "sequence"]]
                    /\ UNCHANGED <<abatementSequences, sequenceLog>>
        /\ UNCHANGED <<besidesForms, egisParcel, pdfCacheBucket, currentFiscalYear>>

\* fillPdfForm and storePdf: the new PDF is saved under the cache key and
\* returned.
FillAndStore ==
    \E c \in CallIds :
        /\ calls[c].pc = "fill"
        /\ LET key == CacheKey(calls[c])
               file == <<[by |-> c, key |-> key, sequenceNumber |-> calls[c].sequenceNumber]>>
           IN  /\ pdfCacheBucket' = [pdfCacheBucket EXCEPT ![key] = file]
               /\ calls' = [calls EXCEPT ![c] =
                     [@ EXCEPT !.effects = @ \cup {"fillPdfForm", "storePdf"},
                               !.pc = "done",
                               !.response =
                                  IF calls[c].handler = "generatePdf"
                                  THEN CallableSuccess(calls[c].fiscalYear, FALSE, file)
                                  ELSE HttpPdf(file)]]
        /\ UNCHANGED <<besidesForms, egisParcel, abatementSequences, currentFiscalYear, sequenceLog>>

\* An awaited call inside the try block throws: the handler answers with
\* its failure response.
CallThrows ==
    \E c \in CallIds :
        /\ calls[c].pc \in {"cache", "cached", "sequence", "commit", "fill"}
        /\ calls' = [calls EXCEPT ![c] =
              [@ EXCEPT !.pc = "done",
                        !.response = ErrorOf(calls[c].handler, 500,
                                             "Failed to generate PDF",
                                             "Failed to generate or download PDF")]]
        /\ UNCHANGED <<besidesForms, egisParcel, pdfCacheBucket, abatementSequences, currentFiscalYear,
                       sequenceLog>>

FormsNext ==
    \/ BeginGeneratePdf
    \/ BeginDownloadPdf
    \/ NewFiscalYear
    \/ CallFetchPropertyDetails
    \/ CallIsPdfCached
    \/ ReturnCachedPdf
    \/ TransactionGet
    \/ TransactionCommit
    \/ FillAndStore
    \/ CallThrows

FormsSpec == FormsInit /\ [][FormsNext]_vars

\* The same calls for a parcel without rows.
NoRowsSpec == NoRowsInit /\ [][FormsNext]_vars

(***************************************************************************)
(* Claims about the PDF cache and the abatement sequence.                  *)
(***************************************************************************)
\* The call has resolved its cache key.
KeyResolved(c) == calls[c].specificFormType # "none"

\* A PDF was already stored under the call's key when the call began.
StoredBefore(c) == KeyResolved(c) /\ CacheKey(calls[c]) \in calls[c].storedAtStart

\* The call answered with a PDF.
AnsweredWithPdf(c) ==
    /\ calls[c].pc = "done"
    /\ \/ calls[c].response.kind = "success"
       \/ (calls[c].response.kind = "http" /\ calls[c].response.status = 200)

\* C11: a call that begins after a PDF was stored under the key it resolves
\* to generates no PDF, stores none and allocates no sequence number, and the
\* PDF it answers with is a stored one of that key made by an earlier call;
\* and no call is answered with the PDF of another key (another fiscal year).
C11_StoredPdfReused ==
    \A c \in CallIds :
        /\ StoredBefore(c) =>
              /\ calls[c].effects \cap
                    {"getNextAbatementSequenceNumber", "fillPdfForm", "storePdf"} = {}
              /\ calls[c].sequenceNumber = 0
              /\ calls[c].pc \notin {"sequence", "commit", "fill"}
              /\ pdfCacheBucket[CacheKey(calls[c])] # <<>>
              /\ pdfCacheBucket[CacheKey(calls[c])][1].by # c
              /\ AnsweredWithPdf(c) =>
                    /\ calls[c].response.pdf # <<>>
                    /\ calls[c].response.pdf[1].by # c
        /\ AnsweredWithPdf(c) =>
              /\ calls[c].response.pdf # <<>>
              /\ calls[c].response.pdf[1].key = CacheKey(calls[c])

\* An abatement PDF stored by the first call is returned to a second call
\* that began after it was stored, while the other fiscal year has no PDF.
C11_Witness ==
    \E c, d \in CallIds :
        /\ c # d
        /\ StoredBefore(d)
        /\ calls[d].formType = "abatement"
        /\ AnsweredWithPdf(d)
        /\ calls[d].response.pdf[1].by = c
        /\ Len(sequenceLog[calls[d].fiscalYear]) = 1
        /\ \A k \in CacheKeys : k.fiscalYear # calls[d].fiscalYear => pdfCacheBucket[k] = <<>>

\* C12: for each year the numbers returned are pairwise distinct, the first
\* is 10001 and each later one is 1 more than the one before; the numbers of
\* one year do not depend on the calls for another.
C12_SequenceNumbers ==
    \A y \in FormYears :
        /\ \A i \in DOMAIN sequenceLog[y] : sequenceLog[y][i] = 10001 + (i - 1)
        /\ \A i, j \in DOMAIN sequenceLog[y] :
              i # j => sequenceLog[y][i] # sequenceLog[y][j]
        /\ \A c \in CallIds :
              calls[c].sequenceNumber # 0 =>
                  \E i \in DOMAIN sequenceLog[calls[c].fiscalYear] :
                      sequenceLog[calls[c].fiscalYear][i] = calls[c].sequenceNumber
        /\ \A c, d \in CallIds :
              (c # d /\ calls[c].sequenceNumber # 0 /\ calls[d].sequenceNumber # 0
                    /\ calls[c].fiscalYear = calls[d].fiscalYear)
                  => calls[c].sequenceNumber # calls[d].sequenceNumber

\* Two calls ran their transactions for one year together: one was run
\* again, and they got 10001 and 10002.
C12_Witness ==
    \E c, d \in CallIds :
        /\ calls[c].fiscalYear = calls[d].fiscalYear
        /\ calls[c].sequenceNumber = 10001
        /\ calls[d].sequenceNumber = 10002
        /\ calls[d].storedAtStart = {}
        /\ \A y \in FormYears : y # calls[c].fiscalYear => sequenceLog[y] = <<>>

\* The failure response of a handler whose try block threw.
Failed(c) ==
    ErrorOf(calls[c].handler, 500, "Failed to generate PDF",
            "Failed to generate or download PDF")

\* C16 (as claimed): a call for a parcel for which no layer has a row
\* generates and stores no PDF and allocates no sequence number, is never
\* answered with a PDF, and, unless a service it called threw, is answered
\* with 'Property not found' (status 404 from downloadPdf).
C16_NoRowsIsNotFound ==
    \A c \in CallIds :
        (egisParcel = "none" /\ "fetchPropertyDetailsByParcelIdHelper" \in calls[c].effects) =>
            /\ calls[c].effects \cap
                  {"getNextAbatementSequenceNumber", "fillPdfForm", "storePdf"} = {}
            /\ ~AnsweredWithPdf(c)
            /\ (calls[c].pc = "done" /\ calls[c].response # Failed(c)) =>
                  calls[c].response =
                      ErrorOf(calls[c].handler, 404, "Property not found", "Property not found")

\* The calls for which a sequence number was allocated under a cache key.
Allocated(key) ==
    { c \in CallIds : KeyResolved(c) /\ CacheKey(calls[c]) = key /\ calls[c].sequenceNumber # 0 }

\* C23 (as claimed): whatever the interleaving of the generatePdf and
\* downloadPdf abatement calls for the parcel, at most one abatement sequence
\* number is allocated for a cache key (form subtype and fiscal year).
C23_OneNumberPerKey ==
    \A key \in CacheKeys : Cardinality(Allocated(key)) <= 1

\* What the code keeps: a call that begins after a PDF was stored under its
\* key allocates nothing, and the numbers allocated under one key by calls
\* that found the cache empty are all different.
NumbersOfOneKeyDiffer ==
    \A c, d \in CallIds :
        (c # d /\ KeyResolved(c) /\ KeyResolved(d) /\ CacheKey(calls[c]) = CacheKey(calls[d])
              /\ calls[c].sequenceNumber # 0 /\ calls[d].sequenceNumber # 0)
            => /\ calls[c].sequenceNumber # calls[d].sequenceNumber
               /\ ~StoredBefore(c)
               /\ ~StoredBefore(d)

====
